---------------------------- MODULE Spec2Model ----------------------------
(***************************************************************************)
(* Model of the LLMRouter request-dispatch core:                           *)
(*   - CacheService      (src/services/cache-service.ts)                   *)
(*   - LLMRouter         (src/unnamed/part_002, the caching dispatcher)    *)
(*   - LLMProvider impls (src/models/providers/*.ts)                       *)
(*   - TaskClassifier    (src/services/task-classifier.ts)                 *)
(*                                                                         *)
(* Time is in milliseconds.  Costs are in units of 1e-7 currency units so  *)
(* that the configured per-token prices are integers.                      *)
(***************************************************************************)
EXTENDS Integers, Sequences, FiniteSets, TLC

VARIABLES
    cache,          \* CacheService.cache: Map<string, CacheEntry>
    semanticCache,  \* CacheService.semanticCache: Array<{embedding, response, timestamp, expiresAt}>
    now,            \* Date.now()
    useSemantic,    \* LLMRouter.useSemantic (constructor argument)
    req,            \* the processPrompt call in progress (its locals and position)
    served,         \* number of processPrompt calls started so far
    lastOp,         \* the last direct CacheService call and what it returned
    puts,           \* number of direct CacheService.set calls so far
    sel,            \* the registered model configs and the last candidate selection made of them
    exec,           \* the makeRequest call in progress on one provider instance
    cls,            \* a text given to TaskClassifier.classifyTask and the tier returned
    tasks           \* the calls in progress at the same time (concurrent specifications)

vars == <<cache, semanticCache, now, useSemantic, req, served, lastOp, puts, sel, exec, cls, tasks>>

--------------------------------------------------------------------------
(* Bounds of the model *)

\* processPrompt calls per behaviour
MaxRequests == 2
\* how far the clock may run past one default TTL
MaxSkew == 1
\* direct CacheService.set calls per behaviour (SpecCache)
MaxPuts == 3
\* last clock value of SpecCache
MaxNow == 2
\* Clock steps followed while several callers share one executor
MaxTicks == 6

--------------------------------------------------------------------------
(* Program constants *)

\* CacheService.defaultTTL = 24 * 60 * 60 * 1000
defaultTTL == 86400000
\* findSemantically: const threshold = 0.8, kept in tenths
threshold == 8

--------------------------------------------------------------------------
(* Values *)

\* JS undefined where an LLMResponse is expected
Undefined == [kind |-> "undefined"]

\* An optional embedding is a sequence of length 0 (undefined) or 1 (the vector)
NoEmbedding == << >>
Some(v) == << v >>

\* Embedding vectors.  All have an integral Euclidean norm, so Math.sqrt is exact.
vecA == <<1, 0, 0, 0, 0>>
vecB == <<99, 14, 1, 1, 1>>
vecC == <<4, 3, 0, 0, 0>>
vecD == <<3, 4, 0, 0, 0>>
vecShort == <<1, 0>>

RECURSIVE SumSeq(_)
SumSeq(s) == IF s = << >> THEN 0 ELSE Head(s) + SumSeq(Tail(s))

\* Math.sqrt on a perfect square
Sqrt(n) == CHOOSE r \in 0..100 : r * r = n

Dot(v, w) == SumSeq([i \in 1..Len(v) |-> v[i] * w[i]])

\* CacheService.calculateCosineSimilarity: throws on a length mismatch, otherwise
\* dotProduct / (magnitude1 * magnitude2), kept as the fraction num/den
\* (den = 0 is the NaN that 0/0 gives).
\* (faulty variant: no length check, the shorter length is used)
calculateCosineSimilarityUnchecked(vec1, vec2) ==
    LET n == IF Len(vec1) < Len(vec2) THEN Len(vec1) ELSE Len(vec2)
    IN  [threw |-> FALSE,
         num |-> SumSeq([i \in 1..n |-> vec1[i] * vec2[i]]),
         den |-> Sqrt(Dot(vec1, vec1)) * Sqrt(Dot(vec2, vec2))]
calculateCosineSimilarity(vec1, vec2) ==
    IF Len(vec1) # Len(vec2)
    THEN [threw |-> TRUE, num |-> 0, den |-> 0]
    ELSE [threw |-> FALSE,
          num |-> Dot(vec1, vec2),
          den |-> Sqrt(Dot(vec1, vec1)) * Sqrt(Dot(vec2, vec2))]

\* similarity >= threshold (false for NaN)
\* (faulty variant: a strict comparison)
AtLeastThresholdStrict(sim) == sim.den # 0 /\ 10 * sim.num > threshold * sim.den
AtLeastThreshold(sim) == sim.den # 0 /\ 10 * sim.num >= threshold * sim.den

--------------------------------------------------------------------------
(* CacheService *)

RemoveKey(c, key) == [k \in DOMAIN c \ {key} |-> c[k]]

\* CacheService.get: [cache |-> the map afterwards, result |-> what is returned]
\* (faulty variants: no expiry test; an entry already dead at now = expiresAt)
CacheGetNoExpiry(c, key, t) ==
    IF key \notin DOMAIN c
    THEN [cache |-> c, result |-> Undefined]
    ELSE [cache |-> c, result |-> c[key].response]
CacheGetStrictExpiry(c, key, t) ==
    IF key \notin DOMAIN c
    THEN [cache |-> c, result |-> Undefined]
    ELSE IF t >= c[key].expiresAt
         THEN [cache |-> RemoveKey(c, key), result |-> Undefined]
         ELSE [cache |-> c, result |-> c[key].response]
\* (faulty variant: a hit renews the entry's expiry)
CacheGetRefresh(c, key, t) ==
    IF key \notin DOMAIN c
    THEN [cache |-> c, result |-> Undefined]
    ELSE IF t > c[key].expiresAt
         THEN [cache |-> RemoveKey(c, key), result |-> Undefined]
         ELSE [cache |-> [c EXCEPT ![key].expiresAt = t + defaultTTL],
               result |-> c[key].response]
CacheGet(c, key, t) ==
    IF key \notin DOMAIN c
    THEN [cache |-> c, result |-> Undefined]
    ELSE IF t > c[key].expiresAt
         THEN [cache |-> RemoveKey(c, key), result |-> Undefined]
         ELSE [cache |-> c, result |-> c[key].response]

\* ttl || this.defaultTTL  (an omitted ttl is 0 here: both are falsy)
TtlOrDefault(ttl) == IF ttl = 0 THEN defaultTTL ELSE ttl

\* CacheService.set, the exact index
\* (faulty variants: an existing entry is kept; nothing is stored without embedding)
CacheSetExactKeepOld(c, key, prompt, response, embedding, ttl, t) ==
    IF key \in DOMAIN c THEN c
    ELSE [k \in DOMAIN c \cup {key} |->
            IF k = key
            THEN [prompt |-> prompt, response |-> response, embedding |-> embedding,
                  timestamp |-> t, expiresAt |-> t + TtlOrDefault(ttl)]
            ELSE c[k]]
CacheSetExactIfEmbedded(c, key, prompt, response, embedding, ttl, t) ==
    IF embedding = NoEmbedding THEN c
    ELSE [k \in DOMAIN c \cup {key} |->
            IF k = key
            THEN [prompt |-> prompt, response |-> response, embedding |-> embedding,
                  timestamp |-> t, expiresAt |-> t + TtlOrDefault(ttl)]
            ELSE c[k]]
CacheSetExact(c, key, prompt, response, embedding, ttl, t) ==
    [k \in DOMAIN c \cup {key} |->
        IF k = key
        THEN [prompt |-> prompt, response |-> response, embedding |-> embedding,
              timestamp |-> t, expiresAt |-> t + TtlOrDefault(ttl)]
        ELSE c[k]]

\* CacheService.set, the semantic index: if (embedding) push
CacheSetSemantic(sem, response, embedding, ttl, t) ==
    IF embedding # NoEmbedding
    THEN Append(sem, [embedding |-> embedding[1], response |-> response,
                      timestamp |-> t, expiresAt |-> t + TtlOrDefault(ttl)])
    ELSE sem

\* CacheService.clearExpiredEntries, the exact index
\* (faulty variant: an entry is already removed at now = expiresAt)
SweepExactStrict(c, t) ==
    [k \in {x \in DOMAIN c : t < c[x].expiresAt} |-> c[k]]
SweepExact(c, t) ==
    [k \in {x \in DOMAIN c : ~(t > c[x].expiresAt)} |-> c[k]]

\* CacheService.clearExpiredEntries, the semantic index
\* (faulty variant: nothing is removed)
SweepSemanticNone(sem, t) == sem
SweepSemantic(sem, t) ==
    LET keep(entry) == t <= entry.expiresAt
    IN  SelectSeq(sem, keep)

\* The scan of findSemantically: the first entry at or above the threshold.
\* [threw, result]
\* (ScanHighest is the variant that keeps the most similar entry instead)
RECURSIVE ScanBest(_, _, _)
ScanBest(sem, embedding, best) ==
    IF sem = << >>
    THEN [threw |-> FALSE,
          result |-> IF best = << >> THEN Undefined ELSE best[1].response]
    ELSE LET sim == calculateCosineSimilarity(embedding, Head(sem).embedding)
         IN  IF sim.threw THEN [threw |-> TRUE, result |-> Undefined]
             ELSE IF AtLeastThreshold(sim)
                     /\ (best = << >>
                         \/ sim.num * best[1].sim.den > best[1].sim.num * sim.den)
                  THEN ScanBest(Tail(sem), embedding,
                                << [response |-> Head(sem).response, sim |-> sim] >>)
                  ELSE ScanBest(Tail(sem), embedding, best)
ScanHighest(sem, embedding) == ScanBest(sem, embedding, << >>)
RECURSIVE Scan(_, _)
Scan(sem, embedding) ==
    IF sem = << >>
    THEN [threw |-> FALSE, result |-> Undefined]
    ELSE LET sim == calculateCosineSimilarity(embedding, Head(sem).embedding)
         IN  IF sim.threw THEN [threw |-> TRUE, result |-> Undefined]
             ELSE IF AtLeastThreshold(sim)
                  THEN [threw |-> FALSE, result |-> Head(sem).response]
                  ELSE Scan(Tail(sem), embedding)

\* CacheService.findSemantically: sweep, then scan.
\* [cache, semanticCache, threw, result]
findSemantically(c, sem, embedding, t) ==
    LET c2 == SweepExact(c, t)
        sem2 == SweepSemantic(sem, t)
        r == Scan(sem2, embedding)
    IN  [cache |-> c2, semanticCache |-> sem2, threw |-> r.threw, result |-> r.result]

--------------------------------------------------------------------------
(* Prompts, fingerprints, responses *)

\* Request texts.  "" is the empty string.
Prompts == {"", "what is tla", "design a cache"}

\* LLMRouter.generateCacheKey: md5 of the prompt, taken to be collision free
generateCacheKey(prompt) == << "md5", prompt >>

\* An LLMResponse: the text, and the model that produced it
Response(kind, model, text) == [kind |-> kind, model |-> model, text |-> text]

\* RequestOptions.  "" is an unset string, << >> an unset list or map, 0 an unset
\* (or zero) maxCost; cacheResults is TRUE when unset.
Options(preferredProvider, preferredModel, cacheResults) ==
    [preferredProvider |-> preferredProvider, preferredModel |-> preferredModel,
     minCapability |-> << >>, maxCost |-> 0, fallbackStrategy |-> "",
     fallbackModels |-> << >>, cacheResults |-> cacheResults]

\* A processPrompt call: its arguments, its locals, where it stands, and what it
\* has done so far
\*   pc        "idle" (none yet), "lookupEmbedding" (awaiting line 58),
\*             "completion" (awaiting line 92), "cacheEmbedding" (awaiting line 100),
\*             "done" (returned or threw)
\*   via       how it ended: "exact", "semantic", "dispatch" or "error"
\*   invoked   the generateCompletion calls made, in order
\*   lookupFailed  the embedding call of the semantic lookup rejected (line 67)
\*   similarityThrew  findSemantically threw in the semantic lookup (line 67)
Call(n, prompt, options, t, c, sem) ==
    [pc |-> "idle", n |-> n, prompt |-> prompt, options |-> options,
     models |-> << >>, idx |-> 0, response |-> Undefined,
     invoked |-> << >>, embedCalls |-> 0, classified |-> FALSE,
     via |-> "", result |-> Undefined, error |-> "", lookupFailed |-> FALSE,
     similarityThrew |-> FALSE,
     stored |-> NoEmbedding, wrote |-> FALSE,
     startedAt |-> t, startCache |-> c, startSem |-> sem]

\* No processPrompt call in progress
Idle == Call(0, "", Options("", "", TRUE), 0, << >>, << >>)

\* No direct CacheService call made yet
NoOp == [op |-> "none", key |-> << >>, response |-> Undefined,
         embedding |-> NoEmbedding, pre |-> << >>, result |-> Undefined,
         threw |-> FALSE]

\* No candidate selection made yet, of the registered configs `configs`
NoSelection(configs) ==
    [router |-> "none", configs |-> configs, complexity |-> "", options |-> << >>,
     threw |-> FALSE, models |-> << >>, error |-> "", invokes |-> << >>]

\* LLMProvider fields (base-provider.ts 7-11), in milliseconds
defaultTimeout == 30000
minRequestInterval == 1000
maxRetries == 3
retryDelay == 2000

\* No text classified, no concurrent calls
NoText == [text |-> << >>, tier |-> ""]
NoTasks == << >>

\* No attempt made yet in the makeRequest call
NoAttempt ==
    [kind |-> "none", header |-> << >>, error |-> "", retries |-> 0, took |-> 0,
     aborted |-> FALSE]

\* A makeRequest call on one provider instance
\*   pc         "idle" (none yet), "pacing" (awaiting line 47), "fetch" (awaiting
\*              line 54), "readingBody" (awaiting response.json() of line 75),
\*              "readingError" (awaiting response.json() of line 71),
\*              "retryAfterWait" (awaiting line 65), "backoffWait" (awaiting
\*              line 86), "done" (returned or threw)
\*   timeoutMs  options.timeoutMs (0 when unset)
\*   via        who called: "makeRequest" (directly), or the router version whose
\*              processPrompt invoked the candidate ("part_002", "llm-router.ts")
\*   requested  the timeoutMs of the processPrompt options (0 when unset)
\*   retries    the local counter; attempts: the fetch calls made so far
\*   sinceLast  Date.now() - this.lastRequestTime, followed up to minRequestInterval
\*   sinceStart the time since the latest fetch of this provider instance began,
\*              followed up to minRequestInterval (no fetch yet: minRequestInterval)
\*   startGap   what sinceStart was when the latest fetch began
\*   abortIn    the time left on the abort timer of line 51 while the attempt is
\*              under way (0 otherwise)
\*   last       the last attempt that ended: how it ended ("ok", "rateLimit",
\*              "httpError", "networkError", "badBody", "timeout"), the
\*              Retry-After header of a 429, the error it is, `retries` when it
\*              was made, how long it took from the fetch call on, and whether
\*              the abort timer fired during it
\*   afterLast  the delays taken since the last attempt ended
\*   outcome    "returned" or "threw" (error: the message thrown)
NoExec ==
    [pc |-> "idle", timeoutMs |-> 0, via |-> "makeRequest", requested |-> 0,
     retries |-> 0, attempts |-> 0,
     sinceLast |-> minRequestInterval, sinceStart |-> minRequestInterval,
     startGap |-> minRequestInterval, abortIn |-> 0, last |-> NoAttempt,
     afterLast |-> << >>, outcome |-> "", error |-> ""]

--------------------------------------------------------------------------
(* The CacheService driven directly (SpecCache) *)

\* One fingerprint: several fingerprints are exercised by the dispatcher (Spec)
CacheKeys == {generateCacheKey("what is tla")}
PutEmbeddings == {NoEmbedding, Some(vecB), Some(vecC)}
QueryEmbeddings == {vecA, vecB, vecD, vecShort}
PutTtls == {0, 1}

CacheInit ==
    /\ cache = << >>
    /\ semanticCache = << >>
    /\ now = 0
    /\ useSemantic = TRUE
    /\ req = Idle
    /\ served = 0
    /\ lastOp = NoOp
    /\ puts = 0
    /\ sel = NoSelection(<< >>)
    /\ exec = NoExec
    /\ cls = NoText
    /\ tasks = NoTasks

\* cacheService.set(key, prompt, response, embedding, ttl)
DoSet(key, embedding, ttl) ==
    /\ puts < MaxPuts
    /\ LET response == Response("completion", "direct", puts + 1)
       IN  /\ cache' = CacheSetExact(cache, key, key[2], response, embedding, ttl, now)
           /\ semanticCache' = CacheSetSemantic(semanticCache, response, embedding, ttl, now)
           /\ lastOp' = [NoOp EXCEPT !.op = "set", !.key = key, !.response = response,
                                     !.embedding = embedding]
    /\ puts' = puts + 1
    /\ UNCHANGED <<now, useSemantic, req, served, sel, exec, cls, tasks>>

\* cacheService.get(key)
DoGet(key) ==
    /\ LET r == CacheGet(cache, key, now)
       IN  /\ cache' = r.cache
           /\ lastOp' = [NoOp EXCEPT !.op = "get", !.key = key, !.result = r.result,
                                     !.pre = IF key \in DOMAIN cache
                                             THEN << cache[key] >> ELSE << >>]
    /\ UNCHANGED <<semanticCache, now, useSemantic, req, served, puts, sel, exec, cls, tasks>>

\* cacheService.findSemantically(embedding)
DoFind(embedding) ==
    /\ LET r == findSemantically(cache, semanticCache, embedding, now)
       IN  /\ cache' = r.cache
           /\ semanticCache' = r.semanticCache
           /\ lastOp' = [NoOp EXCEPT !.op = "find", !.embedding = Some(embedding),
                                     !.result = r.result, !.threw = r.threw,
                                     !.pre = semanticCache]
    /\ UNCHANGED <<now, useSemantic, req, served, puts, sel, exec, cls, tasks>>

\* cacheService.clearExpiredEntries()
DoSweep ==
    /\ cache' = SweepExact(cache, now)
    /\ semanticCache' = SweepSemantic(semanticCache, now)
    /\ lastOp' = [NoOp EXCEPT !.op = "sweep"]
    /\ UNCHANGED <<now, useSemantic, req, served, puts, sel, exec, cls, tasks>>

\* Date.now() moves on by a millisecond
Tick ==
    /\ now < MaxNow
    /\ now' = now + 1
    /\ lastOp' = [NoOp EXCEPT !.op = "tick"]
    /\ UNCHANGED <<cache, semanticCache, useSemantic, req, served, puts, sel, exec, cls, tasks>>

CacheNext ==
    \/ \E key \in CacheKeys, embedding \in PutEmbeddings, ttl \in PutTtls :
          DoSet(key, embedding, ttl)
    \/ \E key \in CacheKeys : DoGet(key)
    \/ \E embedding \in QueryEmbeddings : DoFind(embedding)
    \/ DoSweep
    \/ Tick

SpecCache == CacheInit /\ [][CacheNext]_vars

--------------------------------------------------------------------------
(* TaskClassifier *)

\* What classifyTask reads of a text: whether some SIMPLE, MODERATE or COMPLEX
\* pattern matches it, and prompt.split(/\s+/).length
Features(simple, moderate, complex, words) ==
    [simple |-> simple, moderate |-> moderate, complex |-> complex, words |-> words]

FeaturesOf(prompt) ==
    CASE prompt = "" -> Features(FALSE, FALSE, FALSE, 1)
      [] prompt = "what is tla" -> Features(TRUE, FALSE, FALSE, 3)
      [] prompt = "design a cache" -> Features(FALSE, FALSE, TRUE, 3)

\* TaskClassifier.taskLengthThresholds
SimpleWords == 50
ModerateWords == 150

\* TaskClassifier.classifyTask
\* (faulty variant: the tiers are tried from COMPLEX down)
classifyTaskComplexFirst(f) ==
    IF f.complex THEN "COMPLEX"
    ELSE IF f.moderate THEN "MODERATE"
    ELSE IF f.simple THEN "SIMPLE"
    ELSE IF f.words <= SimpleWords THEN "SIMPLE"
    ELSE IF f.words <= ModerateWords THEN "MODERATE"
    ELSE "COMPLEX"
classifyTask(f) ==
    IF f.simple THEN "SIMPLE"
    ELSE IF f.moderate THEN "MODERATE"
    ELSE IF f.complex THEN "COMPLEX"
    ELSE IF f.words <= SimpleWords THEN "SIMPLE"
    ELSE IF f.words <= ModerateWords THEN "MODERATE"
    ELSE "COMPLEX"

\* A text, as far as classifyTask can tell texts apart: `words` maximal runs of
\* non-whitespace characters, separated by runs of `sep` whitespace characters,
\* after `lead` and before `trail` whitespace characters; `phrases` are the
\* phrases of complexityPatterns that occur in it
Text(lead, words, sep, trail, phrases) ==
    [lead |-> lead, words |-> words, sep |-> sep, trail |-> trail, phrases |-> phrases]

\* One phrase of each tier's patterns, and the number of words it takes
PatternPhrases ==
    [SIMPLE |-> {"what is"}, MODERATE |-> {"explain"}, COMPLEX |-> {"design a"}]
RECURSIVE PhraseWords(_)
PhraseWords(phrases) ==
    IF phrases = {} THEN 0
    ELSE LET ph == CHOOSE x \in phrases : TRUE
         IN  (IF ph = "explain" THEN 1 ELSE 2) + PhraseWords(phrases \ {ph})

\* The word counts tried, around the two thresholds
WordCounts == {0, 1, 5, 49, 50, 51, 149, 150, 151}

\* The texts tried
Texts ==
    { Text(lead, words, sep, trail, phrases) :
        lead \in {0, 1}, words \in WordCounts, sep \in {1, 2}, trail \in {0, 2},
        phrases \in SUBSET {"what is", "explain", "design a"} }

\* prompt.split(/\s+/).length: the pieces between the whitespace runs, empty
\* pieces at either end included
SplitLength(t) ==
    IF t.words = 0
    THEN IF t.lead + t.trail = 0 THEN 1 ELSE 2
    ELSE t.words + (IF t.lead > 0 THEN 1 ELSE 0) + (IF t.trail > 0 THEN 1 ELSE 0)

\* pattern.test(prompt) for some pattern of the tier
MatchesTier(t, tier) == t.phrases \cap PatternPhrases[tier] # {}

FeaturesOfText(t) ==
    Features(MatchesTier(t, "SIMPLE"), MatchesTier(t, "MODERATE"),
             MatchesTier(t, "COMPLEX"), SplitLength(t))

ClassifyInit ==
    /\ cache = << >>
    /\ semanticCache = << >>
    /\ now = 0
    /\ useSemantic = TRUE
    /\ req = Idle
    /\ served = 0
    /\ lastOp = NoOp
    /\ puts = 0
    /\ sel = NoSelection(<< >>)
    /\ exec = NoExec
    /\ cls \in {[text |-> t, tier |-> ""] : t \in {x \in Texts : PhraseWords(x.phrases) <= x.words}}
    /\ tasks = NoTasks

\* classifyTask(text) is called
Classify ==
    /\ cls.tier = ""
    /\ cls' = [cls EXCEPT !.tier = classifyTask(FeaturesOfText(cls.text))]
    /\ UNCHANGED <<cache, semanticCache, now, useSemantic, req, served, lastOp, puts, sel,
                   exec, tasks>>

\* classifyTask(text) is called again
ClassifyAgain ==
    /\ cls.tier # ""
    /\ cls' = [cls EXCEPT !.tier = classifyTask(FeaturesOfText(cls.text))]
    /\ UNCHANGED <<cache, semanticCache, now, useSemantic, req, served, lastOp, puts, sel,
                   exec, tasks>>

ClassifyNext == Classify \/ ClassifyAgain

SpecClassify == ClassifyInit /\ [][ClassifyNext]_vars

--------------------------------------------------------------------------
(* Registered models and providers *)

\* One cost unit of the model is 1e-7 of the configured currency unit
CostScale == 10000000

\* defaultModelConfigs entries registered by index.ts (a subset, in its order);
\* impl is the class of the provider object registered with the config
ModelConfigs == <<
    [name |-> "claude-3-7-sonnet", provider |-> "anthropic", impl |-> "ClaudeProvider",
     costPerInputToken |-> 25, costPerOutputToken |-> 75,
     capabilities |-> [reasoning |-> 9, creativity |-> 8, knowledge |-> 9, speed |-> 7]],
    [name |-> "claude-3-opus", provider |-> "anthropic", impl |-> "ClaudeProvider",
     costPerInputToken |-> 150, costPerOutputToken |-> 750,
     capabilities |-> [reasoning |-> 10, creativity |-> 9, knowledge |-> 10, speed |-> 5]],
    [name |-> "gemini-1.5-flash", provider |-> "google", impl |-> "GeminiProvider",
     costPerInputToken |-> 5, costPerOutputToken |-> 15,
     capabilities |-> [reasoning |-> 7, creativity |-> 7, knowledge |-> 8, speed |-> 9]] >>

\* `${provider}:${name}`
ModelKey(provider, name) == << provider, name >>
KeyOf(m) == ModelKey(m.provider, m.name)

\* LLMRouter.getProviderByName: the provider registered under the key, if any
\* (a sequence of length 0 or 1 holding the provider's class)
getProviderByName(provider, model) ==
    LET found == SelectSeq(ModelConfigs, LAMBDA m : KeyOf(m) = ModelKey(provider, model))
    IN  IF found = << >> THEN << >> ELSE << found[Len(found)].impl >>

\* LLMProvider.validatePrompt: throws on an empty prompt
validatePromptThrows(prompt) == prompt = ""

\* Outcomes of one outbound call as the provider sees it
BackendOutcomes == {"ok", "error", "timeout"}

\* this.modelName of the provider objects index.ts constructs: one object per
\* class, each with its constructor's default model name (the one ClaudeProvider
\* object is registered under both anthropic keys)
modelNameOf(impl) ==
    IF impl = "ClaudeProvider" THEN "claude-3-7-sonnet" ELSE "gemini-1.5-flash"

\* The provider an answer names: metadata.provider 'anthropic', provider 'google'
providerOfAnswer(impl) == IF impl = "ClaudeProvider" THEN "anthropic" ELSE "google"

\* this.constructor.name.toLowerCase().replace('provider', '')
providerOfError(impl) == IF impl = "ClaudeProvider" THEN "claude" ELSE "gemini"

\* The LLMResponse an outbound completion call made for request n yields
Completion(model, prompt, n) == Response("completion", model, << prompt, n >>)
\* LLMProvider.createErrorResponse
createErrorResponse(model, outcome, n) == Response("error", model, << outcome, n >>)

\* generateCompletion of the provider object of class `impl`, reached under
\* `key`: [threw |-> it rejected, called |-> an outbound call was made, response].
\* The response names the object's own modelName, whatever key it was reached
\* under.
\*   ClaudeProvider: rethrows every failure of the outbound call.
\*   GeminiProvider: validates, and turns every failure into an error response.
generateCompletion(impl, key, prompt, outcome, n) ==
    LET answers == ModelKey(providerOfAnswer(impl), modelNameOf(impl))
        fails == ModelKey(providerOfError(impl), modelNameOf(impl))
    IN  IF impl = "ClaudeProvider"
        THEN IF outcome = "ok"
             THEN [threw |-> FALSE, called |-> TRUE,
                   response |-> Completion(answers, prompt, n)]
             ELSE [threw |-> TRUE, called |-> TRUE, response |-> Undefined]
        ELSE IF validatePromptThrows(prompt)
             THEN [threw |-> FALSE, called |-> FALSE,
                   response |-> createErrorResponse(fails, "invalid", n)]
             ELSE IF outcome = "ok"
                  THEN [threw |-> FALSE, called |-> TRUE,
                        response |-> Completion(answers, prompt, n)]
                  ELSE [threw |-> FALSE, called |-> TRUE,
                        response |-> createErrorResponse(fails, outcome, n)]

\* What the provider registered under `key` answers when its completion call
\* for request n succeeds
AnswerOf(key, prompt, n) ==
    generateCompletion(getProviderByName(key[1], key[2])[1], key, prompt, "ok", n).response

\* The vector each backend's embedding endpoint gives for a text
BackendEmbedding(impl, prompt) ==
    IF impl = "ClaudeProvider"
    THEN CASE prompt = "what is tla" -> vecA
           [] prompt = "design a cache" -> vecB
           [] OTHER -> vecD
    ELSE CASE prompt = "what is tla" -> vecShort
           [] OTHER -> << 3, 4 >>

\* generateEmbedding: [threw, embedding (optional)]; both providers rethrow, and
\* GeminiProvider validates first
generateEmbedding(impl, prompt, outcome) ==
    IF (impl = "GeminiProvider" /\ validatePromptThrows(prompt)) \/ outcome # "ok"
    THEN [threw |-> TRUE, embedding |-> NoEmbedding]
    ELSE [threw |-> FALSE, embedding |-> Some(BackendEmbedding(impl, prompt))]

--------------------------------------------------------------------------
(* LLMRouter.selectModels *)

\* Array.prototype.sort with a consistent comparator: stable, s[i] before s[j]
\* when compare[i, j] < 0, where compare[i, j] is the comparator's value on
\* (s[i], s[j])
\* (SortByUnstable is the faulty variant that reverses equal elements)
SortByUnstable(s, compare) ==
    LET before(j, i) == compare[j, i] < 0 \/ (compare[j, i] = 0 /\ j > i)
        rank(i) == 1 + Cardinality({j \in 1..Len(s) : before(j, i)})
    IN  [k \in 1..Len(s) |-> s[CHOOSE i \in 1..Len(s) : rank(i) = k]]
SortBy(s, compare) ==
    LET before(j, i) == compare[j, i] < 0 \/ (compare[j, i] = 0 /\ j < i)
        rank(i) == 1 + Cardinality({j \in 1..Len(s) : before(j, i)})
    IN  [k \in 1..Len(s) |-> s[CHOOSE i \in 1..Len(s) : rank(i) = k]]

TotalCost(m) == m.costPerInputToken + m.costPerOutputToken

\* The comparators of selectModels, tabulated over the elements of s:
\* compare[i, j] is the comparator's value on (s[i], s[j]), in cost units for
\* bySpeedAndCost and doubled for byKnowledgeAndReasoning (the sign is what sort reads)
\* (faulty variant: the most expensive first)
byCostDescending(s) ==
    [i \in 1..Len(s), j \in 1..Len(s) |-> TotalCost(s[j]) - TotalCost(s[i])]
byCost(s) ==
    [i \in 1..Len(s), j \in 1..Len(s) |-> TotalCost(s[i]) - TotalCost(s[j])]
byCapability(s, capability) ==
    [i \in 1..Len(s), j \in 1..Len(s) |->
        s[j].capabilities[capability] - s[i].capabilities[capability]]
bySpeedAndCost(s) ==
    [i \in 1..Len(s), j \in 1..Len(s) |->
        (s[j].capabilities.speed * 2 * CostScale - TotalCost(s[i]))
          - (s[i].capabilities.speed * 2 * CostScale - TotalCost(s[j]))]
byKnowledgeAndReasoning(s) ==
    [i \in 1..Len(s), j \in 1..Len(s) |->
        (s[i].capabilities.knowledge + s[i].capabilities.reasoning)
          - (s[j].capabilities.knowledge + s[j].capabilities.reasoning)]

\* m.capabilities[capability] >= minValue for every entry of options.minCapability
\* (faulty variant: a rating equal to the minimum is rejected)
RECURSIVE MeetsAllStrict(_, _)
MeetsAllStrict(m, mins) ==
    IF mins = << >> THEN TRUE
    ELSE m.capabilities[Head(mins)[1]] > Head(mins)[2] /\ MeetsAllStrict(m, Tail(mins))
RECURSIVE MeetsAll(_, _)
MeetsAll(m, mins) ==
    IF mins = << >> THEN TRUE
    ELSE m.capabilities[Head(mins)[1]] >= Head(mins)[2] /\ MeetsAll(m, Tail(mins))

\* The filters of selectModels
EligibleModels(options, configs) ==
    LET ofProvider == IF options.preferredProvider # ""
                      THEN SelectSeq(configs,
                                     LAMBDA m : m.provider = options.preferredProvider)
                      ELSE configs
        ofModel == IF options.preferredModel # ""
                   THEN SelectSeq(ofProvider, LAMBDA m : m.name = options.preferredModel)
                   ELSE ofProvider
        capable == SelectSeq(ofModel, LAMBDA m : MeetsAll(m, options.minCapability))
    IN  IF options.maxCost # 0
        THEN SelectSeq(capable,
                       LAMBDA m : m.costPerInputToken * 1000 + m.costPerOutputToken * 1000
                                    <= options.maxCost)
        ELSE capable

\* The capability the capability-descending strategy sorts on
capabilityKey(complexity) ==
    CASE complexity = "SIMPLE" -> "speed"
      [] complexity = "MODERATE" -> "knowledge"
      [] OTHER -> "reasoning"

\* The specific-models strategy: the listed keys found among the eligible models
RECURSIVE PickListed(_, _)
PickListed(keys, eligible) ==
    IF keys = << >> THEN << >>
    ELSE LET found == SelectSeq(eligible, LAMBDA m : KeyOf(m) = Head(keys))
         IN  (IF found = << >> THEN << >> ELSE << found[1] >>)
               \o PickListed(Tail(keys), eligible)

\* LLMRouter.selectModels: [threw |-> it threw, models |-> the ordered keys]
selectModels(complexity, options, configs) ==
    LET eligible == EligibleModels(options, configs)
        ordered ==
          CASE options.fallbackStrategy = "cost-ascending" ->
                 SortBy(eligible, byCost(eligible))
            [] options.fallbackStrategy = "capability-descending" ->
                 SortBy(eligible, byCapability(eligible, capabilityKey(complexity)))
            [] options.fallbackStrategy = "specific-models" ->
                 PickListed(options.fallbackModels, eligible)
            [] OTHER ->
                 CASE complexity = "SIMPLE" ->
                        SortBy(eligible, bySpeedAndCost(eligible))
                   [] complexity = "MODERATE" ->
                        SortBy(eligible, byKnowledgeAndReasoning(eligible))
                   [] OTHER ->
                        SortBy(eligible, byCapability(eligible, "reasoning"))
    IN  IF options.fallbackStrategy = "specific-models" /\ options.fallbackModels = << >>
        THEN [threw |-> TRUE, models |-> << >>]
        ELSE [threw |-> FALSE, models |-> [i \in 1..Len(ordered) |-> KeyOf(ordered[i])]]

--------------------------------------------------------------------------
(* LLMRouter.processPrompt (Spec) *)

\* The requests made of the router
RequestOptions ==
    { Options("", "", TRUE), Options("", "", FALSE),
      Options("anthropic", "claude-3-7-sonnet", TRUE),
      Options("google", "gemini-1.5-flash", TRUE) }

\* options.cacheResults !== false
\* (faulty variant: the option is ignored)
CachingEnabledAlways(options) == TRUE
CachingEnabled(options) == options.cacheResults # FALSE

\* a || b on strings
OrElse(a, b) == IF a # "" THEN a ELSE b

\* The provider the semantic lookup asks for an embedding (optional)
primaryProvider(options) ==
    getProviderByName(OrElse(options.preferredProvider, "openai"),
                      OrElse(options.preferredModel, "text-embedding-3-small"))

\* The for loop at candidate i: skips the keys with no registered provider;
\* the index of the next candidate to call, or 0 when the list is exhausted
RECURSIVE NextCandidate(_, _)
NextCandidate(models, i) ==
    IF i > Len(models) THEN 0
    ELSE IF getProviderByName(models[i][1], models[i][2]) = << >>
         THEN NextCandidate(models, i + 1)
         ELSE i

\* processPrompt returns `response`
Return(r, via, response) == [r EXCEPT !.pc = "done", !.via = via, !.result = response]
\* processPrompt throws
Throw(r, error) == [r EXCEPT !.pc = "done", !.via = "error", !.error = error]

\* The loop moves to candidate i or later, or falls out of the loop and throws
TryFrom(r, i) ==
    LET j == NextCandidate(r.models, i)
    IN  IF j = 0 THEN Throw(r, "All models failed to generate a response")
        ELSE [r EXCEPT !.pc = "completion", !.idx = j]

\* Lines 75-81: classify, select, enter the loop
BeginDispatch(r) ==
    LET complexity == classifyTask(FeaturesOf(r.prompt))
        selected == selectModels(complexity, r.options, ModelConfigs)
        r2 == [r EXCEPT !.classified = TRUE]
    IN  IF selected.threw
        THEN Throw(r2, "Fallback models must be specified when using specific-models strategy")
        ELSE TryFrom([r2 EXCEPT !.models = selected.models], 1)

Init ==
    /\ cache = << >>
    /\ semanticCache = << >>
    /\ now = 0
    /\ useSemantic \in BOOLEAN
    /\ req = Idle
    /\ served = 0
    /\ lastOp = NoOp
    /\ puts = 0
    /\ sel = NoSelection(<< >>)
    /\ exec = NoExec
    /\ cls = NoText
    /\ tasks = NoTasks

\* processPrompt(prompt, options) is called and runs to its first await, or to
\* its end when it needs none (lines 39-81)
StartRequest(prompt, options) ==
    /\ req.pc \in {"idle", "done"}
    /\ served < MaxRequests
    /\ served' = served + 1
    /\ LET r == Call(served + 1, prompt, options, now, cache, semanticCache)
           got == CacheGet(cache, generateCacheKey(prompt), now)
       IN  IF CachingEnabled(options)
           THEN /\ cache' = got.cache
                /\ req' = IF got.result # Undefined
                          THEN Return(r, "exact", got.result)
                          ELSE IF useSemantic /\ primaryProvider(options) # << >>
                               THEN [r EXCEPT !.pc = "lookupEmbedding"]
                               ELSE BeginDispatch(r)
           ELSE /\ cache' = cache
                /\ req' = BeginDispatch(r)
    /\ UNCHANGED <<semanticCache, now, useSemantic, lastOp, puts, sel, exec, cls, tasks>>

\* The try/catch of lines 52-70 once the embedding call has settled: `threw`
\* when it rejected, else `found` is what findSemantically gave (Undefined when
\* it found nothing or threw)
\* (faulty variant: no catch, the embedding failure is thrown to the caller)
AfterLookupRethrow(r, threw, found) ==
    IF threw THEN Throw([r EXCEPT !.lookupFailed = TRUE], "Embedding request failed")
    ELSE IF found # Undefined THEN Return(r, "semantic", found)
         ELSE BeginDispatch(r)
AfterLookup(r, threw, found) ==
    IF threw THEN BeginDispatch([r EXCEPT !.lookupFailed = TRUE])
    ELSE IF found # Undefined THEN Return(r, "semantic", found)
         ELSE BeginDispatch(r)

\* primaryProvider.generateEmbedding(prompt) settles (lines 58-71)
LookupEmbeddingReturns(outcome) ==
    /\ req.pc = "lookupEmbedding"
    /\ LET e == generateEmbedding(primaryProvider(req.options)[1], req.prompt, outcome)
           r == [req EXCEPT !.embedCalls = @ + 1]
           f == findSemantically(cache, semanticCache, e.embedding[1], now)
       IN  IF e.threw
           THEN /\ req' = AfterLookup(r, TRUE, Undefined)
                /\ UNCHANGED <<cache, semanticCache>>
           ELSE /\ cache' = f.cache
                /\ semanticCache' = f.semanticCache
                /\ req' = AfterLookup([r EXCEPT !.similarityThrew = f.threw], FALSE,
                                      IF f.threw THEN Undefined ELSE f.result)
    /\ UNCHANGED <<now, useSemantic, served, lastOp, puts, sel, exec, cls, tasks>>

\* modelProvider.generateCompletion(prompt) settles (lines 90-113)
CompletionReturns(outcome) ==
    /\ req.pc = "completion"
    /\ LET key == req.models[req.idx]
           impl == getProviderByName(key[1], key[2])[1]
           g == generateCompletion(impl, key, req.prompt, outcome, req.n)
           r == [req EXCEPT !.invoked = Append(@, [key |-> key, called |-> g.called,
                                                   outcome |-> IF g.called THEN outcome
                                                               ELSE "invalid"])]
       IN  IF g.threw
           THEN /\ req' = TryFrom(r, req.idx + 1)
                /\ UNCHANGED <<cache, semanticCache>>
           ELSE IF CachingEnabled(req.options)
                THEN IF useSemantic
                     THEN /\ req' = [r EXCEPT !.pc = "cacheEmbedding",
                                              !.response = g.response]
                          /\ UNCHANGED <<cache, semanticCache>>
                     ELSE /\ cache' = CacheSetExact(cache, generateCacheKey(req.prompt),
                                                    req.prompt, g.response, NoEmbedding,
                                                    0, now)
                          /\ semanticCache' = CacheSetSemantic(semanticCache, g.response,
                                                               NoEmbedding, 0, now)
                          /\ req' = [Return(r, "dispatch", g.response)
                                       EXCEPT !.wrote = TRUE]
                ELSE /\ req' = Return(r, "dispatch", g.response)
                     /\ UNCHANGED <<cache, semanticCache>>
    /\ UNCHANGED <<now, useSemantic, served, lastOp, puts, sel, exec, cls, tasks>>

\* modelProvider.generateEmbedding(prompt) settles (lines 100-109)
CacheEmbeddingReturns(outcome) ==
    /\ req.pc = "cacheEmbedding"
    /\ LET key == req.models[req.idx]
           impl == getProviderByName(key[1], key[2])[1]
           e == generateEmbedding(impl, req.prompt, outcome)
           embedding == IF e.threw THEN NoEmbedding ELSE e.embedding
           r == [req EXCEPT !.embedCalls = @ + 1, !.stored = embedding, !.wrote = TRUE]
       IN  /\ cache' = CacheSetExact(cache, generateCacheKey(req.prompt), req.prompt,
                                     req.response, embedding, 0, now)
           /\ semanticCache' = CacheSetSemantic(semanticCache, req.response, embedding,
                                                0, now)
           /\ req' = Return(r, "dispatch", req.response)
    /\ UNCHANGED <<now, useSemantic, served, lastOp, puts, sel, exec, cls, tasks>>

\* Date.now() moves on, by a millisecond or by a whole default TTL; the clock is
\* followed up to MaxSkew milliseconds past each multiple of the TTL
ClockAdvance(d) ==
    /\ now + d <= defaultTTL + MaxSkew
    /\ d = 1 => now % defaultTTL < MaxSkew
    /\ now' = now + d
    /\ UNCHANGED <<cache, semanticCache, useSemantic, req, served, lastOp, puts, sel, exec, cls, tasks>>

Next ==
    \/ \E prompt \in Prompts, options \in RequestOptions : StartRequest(prompt, options)
    \/ \E outcome \in BackendOutcomes : LookupEmbeddingReturns(outcome)
    \/ \E outcome \in BackendOutcomes : CompletionReturns(outcome)
    \/ \E outcome \in BackendOutcomes : CacheEmbeddingReturns(outcome)
    \/ \E d \in {1, defaultTTL} : ClockAdvance(d)

Spec == Init /\ [][Next]_vars

--------------------------------------------------------------------------
(* Candidate selection of both LLMRouter versions (SpecSelect) *)

\* defaultModelConfigs, in the order index.ts registers them
ConfigPool == <<
    [name |-> "gpt-4-turbo", provider |-> "openai", impl |-> "OpenAIProvider",
     costPerInputToken |-> 100, costPerOutputToken |-> 300,
     capabilities |-> [reasoning |-> 9, creativity |-> 8, knowledge |-> 9, speed |-> 6]],
    [name |-> "gpt-3.5-turbo", provider |-> "openai", impl |-> "OpenAIProvider",
     costPerInputToken |-> 5, costPerOutputToken |-> 15,
     capabilities |-> [reasoning |-> 7, creativity |-> 7, knowledge |-> 7, speed |-> 9]],
    ModelConfigs[1],
    ModelConfigs[2],
    [name |-> "gemini-1.5-pro", provider |-> "google", impl |-> "GeminiProvider",
     costPerInputToken |-> 30, costPerOutputToken |-> 60,
     capabilities |-> [reasoning |-> 8, creativity |-> 8, knowledge |-> 9, speed |-> 7]],
    ModelConfigs[3] >>

\* The elements of s at the positions in `keep`, in the order of s
RECURSIVE SubSeqAt(_, _, _)
SubSeqAt(s, keep, i) ==
    IF i > Len(s) THEN << >>
    ELSE (IF i \in keep THEN << s[i] >> ELSE << >>) \o SubSeqAt(s, keep, i + 1)

Reverse(s) == [i \in 1..Len(s) |-> s[Len(s) + 1 - i]]

\* The registrations tried: any of the configs, registered in the order of
\* index.ts or in the opposite order
Registries ==
    {SubSeqAt(ConfigPool, keep, 1) : keep \in SUBSET (1..Len(ConfigPool))}
      \cup {SubSeqAt(Reverse(ConfigPool), keep, 1) : keep \in SUBSET (1..Len(ConfigPool))}

Complexities == {"SIMPLE", "MODERATE", "COMPLEX"}

\* The values of options.fallbackModels tried (<< >> is unset or empty)
FallbackLists ==
    { << >>,
      << ModelKey("x", "a"), ModelKey("google", "gemini-1.5-flash") >>,
      << ModelKey("anthropic", "claude-3-opus"), ModelKey("openai", "gpt-3.5-turbo"),
         ModelKey("anthropic", "claude-3-opus") >> }

\* The options tried.  maxCost is optional here: << >> is unset, << 0 >> is zero.
SelectOptions ==
    { [preferredProvider |-> pp, preferredModel |-> pm, minCapability |-> mc,
       maxCost |-> cost, fallbackStrategy |-> fs, fallbackModels |-> fm,
       cacheResults |-> TRUE] :
        pp \in {"", "google"},
        pm \in {"", "gemini-1.5-pro"},
        mc \in {<< >>, << << "reasoning", 9 >> >>,
                << << "reasoning", 8 >>, << "speed", 7 >> >>},
        cost \in {<< >>, << 0 >>, << 100000 >>},
        fs \in {"", "cost-ascending", "capability-descending", "specific-models"},
        fm \in FallbackLists }

\* if (options.maxCost): undefined and 0 are both falsy
Truthy(options) ==
    [options EXCEPT !.maxCost = IF options.maxCost = << >> THEN 0 ELSE options.maxCost[1]]

\* Object.values(m.capabilities).reduce((sum, val) => sum + val, 0)
CapabilitySum(m) ==
    m.capabilities.reasoning + m.capabilities.creativity
      + m.capabilities.knowledge + m.capabilities.speed

\* The comparators of selectModels in llm-router.ts, tabulated as above;
\* byCapabilityPerCost has the sign of bScore - aScore
byCapabilitySum(s) ==
    [i \in 1..Len(s), j \in 1..Len(s) |-> CapabilitySum(s[j]) - CapabilitySum(s[i])]
byCapabilityPerCost(s) ==
    [i \in 1..Len(s), j \in 1..Len(s) |->
        CapabilitySum(s[j]) * TotalCost(s[i]) - CapabilitySum(s[i]) * TotalCost(s[j])]

\* The filters of selectModels in llm-router.ts: maxCost applies when defined
EligibleModelsPlain(options, configs) ==
    LET ofProvider == IF options.preferredProvider # ""
                      THEN SelectSeq(configs,
                                     LAMBDA m : m.provider = options.preferredProvider)
                      ELSE configs
        ofModel == IF options.preferredModel # ""
                   THEN SelectSeq(ofProvider, LAMBDA m : m.name = options.preferredModel)
                   ELSE ofProvider
        capable == SelectSeq(ofModel, LAMBDA m : MeetsAll(m, options.minCapability))
    IN  IF options.maxCost # << >>
        THEN SelectSeq(capable,
                       LAMBDA m : m.costPerInputToken * 1000 + m.costPerOutputToken * 1000
                                    <= options.maxCost[1])
        ELSE capable

\* LLMRouter.selectModels of llm-router.ts: [threw, models]
selectModelsPlain(options, configs) ==
    LET eligible == EligibleModelsPlain(options, configs)
        keys(ms) == [i \in 1..Len(ms) |-> KeyOf(ms[i])]
    IN  IF eligible = << >> THEN [threw |-> FALSE, models |-> << >>]
        ELSE CASE options.fallbackStrategy = "cost-ascending" ->
                    [threw |-> FALSE, models |-> keys(SortBy(eligible, byCost(eligible)))]
               [] options.fallbackStrategy = "capability-descending" ->
                    [threw |-> FALSE,
                     models |-> keys(SortBy(eligible, byCapabilitySum(eligible)))]
               [] options.fallbackStrategy = "specific-models" ->
                    IF options.fallbackModels = << >>
                    THEN [threw |-> TRUE, models |-> << >>]
                    ELSE [threw |-> FALSE, models |-> options.fallbackModels]
               [] OTHER ->
                    [threw |-> FALSE,
                     models |-> keys(SortBy(eligible, byCapabilityPerCost(eligible)))]

\* The keys of `models` that have a registered provider: those the loop of
\* processPrompt gets to invoke, in order, while the ones before fail
Invocable(models, configs) ==
    SelectSeq(models, LAMBDA key : \E i \in 1..Len(configs) : KeyOf(configs[i]) = key)

\* let eligibleModels = [...this.modelConfigs]: the array the variable first
\* refers to is a fresh copy of the registered one
\* (faulty variant: it is the registered array itself)
FirstArrayAliased == "registered"
FirstArray == "copy"

\* The array eligibleModels refers to when the strategy is reached: every filter
\* that is applied assigns the new array Array.prototype.filter returns (the
\* loop over an empty minCapability assigns nothing)
SortedArray(router, options) ==
    IF \/ options.preferredProvider # ""
       \/ options.preferredModel # ""
       \/ options.minCapability # << >>
       \/ IF router = "part_002" THEN Truthy(options).maxCost # 0
                                 ELSE options.maxCost # << >>
    THEN "filtered"
    ELSE FirstArray

\* this.modelConfigs after selectModels: Array.prototype.sort sorts the array it
\* is called on in place; the specific-models strategy sorts nothing, and
\* llm-router.ts returns before the sort when nothing is eligible
RegisteredAfter(router, complexity, options, configs) ==
    LET selected == IF router = "part_002"
                    THEN selectModels(complexity, Truthy(options), configs)
                    ELSE selectModelsPlain(options, configs)
        sorts == options.fallbackStrategy # "specific-models" /\ configs # << >>
    IN  IF sorts /\ SortedArray(router, options) = "registered"
        THEN [i \in 1..Len(configs) |->
                configs[CHOOSE k \in 1..Len(configs) :
                           KeyOf(configs[k]) = selected.models[i]]]
        ELSE configs

SelectInit ==
    /\ cache = << >>
    /\ semanticCache = << >>
    /\ now = 0
    /\ useSemantic = TRUE
    /\ req = Idle
    /\ served = 0
    /\ lastOp = NoOp
    /\ puts = 0
    /\ sel \in {NoSelection(configs) : configs \in Registries}
    /\ exec = NoExec
    /\ cls = NoText
    /\ tasks = NoTasks

\* part_002, processPrompt lines 75-88 and 116 for a text of the given complexity:
\* the selection, the candidates the loop can invoke, and the error thrown when
\* there is none
SelectCaching(complexity, options) ==
    /\ sel.router = "none"
    /\ LET selected == selectModels(complexity, Truthy(options), sel.configs)
           invokes == Invocable(selected.models, sel.configs)
       IN  sel' = [sel EXCEPT
                     !.router = "part_002", !.complexity = complexity,
                     !.configs = RegisteredAfter("part_002", complexity, options, sel.configs),
                     !.options = options, !.threw = selected.threw,
                     !.models = selected.models, !.invokes = invokes,
                     !.error =
                        IF selected.threw
                        THEN "Fallback models must be specified when using specific-models strategy"
                        ELSE IF invokes = << >>
                             THEN "All models failed to generate a response"
                             ELSE ""]
    /\ UNCHANGED <<cache, semanticCache, now, useSemantic, req, served, lastOp, puts, exec, cls, tasks>>

\* llm-router.ts, processPrompt lines 37-50 and 59
SelectPlain(options) ==
    /\ sel.router = "none"
    /\ LET selected == selectModelsPlain(options, sel.configs)
           invokes == Invocable(selected.models, sel.configs)
       IN  sel' = [sel EXCEPT
                     !.router = "llm-router.ts", !.options = options,
                     !.configs = RegisteredAfter("llm-router.ts", "", options, sel.configs),
                     !.threw = selected.threw,
                     !.models = selected.models, !.invokes = invokes,
                     !.error =
                        IF selected.threw
                        THEN "Fallback models must be specified when using specific-models strategy"
                        ELSE IF selected.models = << >>
                             THEN "No eligible models found for the given prompt and options"
                             ELSE IF invokes = << >>
                                  THEN "All models failed to generate a response"
                                  ELSE ""]
    /\ UNCHANGED <<cache, semanticCache, now, useSemantic, req, served, lastOp, puts, exec, cls, tasks>>

SelectNext ==
    \/ \E complexity \in Complexities, options \in SelectOptions :
          SelectCaching(complexity, options)
    \/ \E options \in SelectOptions : SelectPlain(options)

SpecSelect == SelectInit /\ [][SelectNext]_vars

--------------------------------------------------------------------------
(* LLMProvider.makeRequest (SpecExec) *)

\* How the fetch of line 54 can settle: it resolves with a 2xx response, a 429
\* response or another non-2xx response (the body not yet read), it rejects
\* (network failure), or the timer aborts it
AttemptOutcomes == {"ok", "rateLimit", "httpError", "networkError", "timeout"}

\* How response.json() (lines 71, 75) can settle: the body is a JSON object with
\* a message, a JSON object without one, the JSON null, not JSON, or the timer
\* aborts the read
BodyOutcomes == {"json", "jsonNoMessage", "jsonNull", "invalid", "aborted"}

\* A Retry-After value in its HTTP-date form, as a sequence of characters; the
\* date is taken to lie one minute after the response that carries it
HttpDate ==
    << "F", "r", "i", ",", " ", "3", "0", " ", "O", "c", "t", " ",
       "2", "0", "2", "6", " ", "0", "7", ":", "2", "8", ":", "0", "0", " ",
       "G", "M", "T" >>

\* What response.headers.get('Retry-After') gives for a 429 response: << >>
\* for null (no header), else << value >> with the value as a sequence of
\* characters: '', '0', '3', '1.5' and the HTTP-date
RetryAfterHeaders ==
    { << >>, << << >> >>, << << "0" >> >>, << << "3" >> >>,
      << << "1", ".", "5" >> >>, << HttpDate >> }

\* How long a fetch that is not aborted takes, and how long the caller may
\* wait between two makeRequest calls
Durations == {0, 500}

\* The values of options.timeoutMs tried (0: unset)
TimeoutOptions == {0, 500, 5000}

\* The value of a decimal digit as << d >>, << >> for any other character
DigitValue(c) ==
    LET digits == << "0", "1", "2", "3", "4", "5", "6", "7", "8", "9" >>
    IN  IF \E d \in 1..10 : digits[d] = c
        THEN << (CHOOSE d \in 1..10 : digits[d] = c) - 1 >>
        ELSE << >>

\* The string without its leading white space
RECURSIVE SkipSpace(_)
SkipSpace(str) ==
    IF str # << >> /\ str[1] = " " THEN SkipSpace(Tail(str)) ELSE str

\* The value of the longest prefix of digits of the string, after the value
\* `acc` of the digits read so far (<< >>: none read)
RECURSIVE LeadingDigits(_, _)
LeadingDigits(str, acc) ==
    IF str # << >> /\ DigitValue(str[1]) # << >>
    THEN LeadingDigits(Tail(str),
                       << (IF acc = << >> THEN 0 ELSE acc[1]) * 10
                            + DigitValue(str[1])[1] >>)
    ELSE acc

\* parseInt(str) with no radix, on strings without a 0x prefix: white space is
\* skipped, a sign is read, then the longest prefix of decimal digits; what
\* follows is ignored. << n >> is the number n, << >> is NaN (no digit read).
parseInt(str) ==
    LET s == SkipSpace(str)
        signed == s # << >> /\ s[1] \in {"+", "-"}
        n == LeadingDigits(IF signed THEN Tail(s) ELSE s, << >>)
    IN  IF n = << >> THEN << >>
        ELSE IF signed /\ s[1] = "-" THEN << 0 - n[1] >> ELSE n

\* parseInt(response.headers.get('Retry-After') || '2') * 1000: << ms >>, or
\* << >> for NaN
\* (faulty variant: the header is ignored and the computed delay is taken)
retryAfterMsIgnored(header, retries) == << retryDelay * (retries + 1) >>
retryAfterMs(header, retries) ==
    LET retryAfter == parseInt(IF header = << >> \/ header[1] = << >>
                               THEN << "2" >> ELSE header[1])
    IN  IF retryAfter = << >> THEN << >> ELSE << retryAfter[1] * 1000 >>

\* setTimeout(resolve, delay): the milliseconds after which the timer fires;
\* Node sets a delay that is NaN or less than 1 to 1
TimerDelay(delay) == IF delay = << >> \/ delay[1] < 1 THEN 1 ELSE delay[1]

\* options?.timeoutMs || this.defaultTimeout
EffectiveTimeout(timeoutMs) == IF timeoutMs # 0 THEN timeoutMs ELSE defaultTimeout

\* d more milliseconds on the clock
Advance(e, d) ==
    [e EXCEPT !.sinceLast = IF @ + d > minRequestInterval THEN minRequestInterval
                            ELSE @ + d,
              !.sinceStart = IF @ + d > minRequestInterval THEN minRequestInterval
                             ELSE @ + d]

\* Lines 50-54: the abort timer is armed and fetch is called
BeginFetch(e) ==
    [e EXCEPT !.pc = "fetch", !.attempts = @ + 1,
              !.startGap = e.sinceStart, !.sinceStart = 0,
              !.abortIn = EffectiveTimeout(e.timeoutMs)]

\* A delay begins
Delay(e, pc, kind, ms) ==
    [e EXCEPT !.pc = pc, !.afterLast = Append(@, [kind |-> kind, ms |-> ms])]

\* makeRequest returns / throws
ExecReturn(e) == [e EXCEPT !.pc = "done", !.outcome = "returned"]
ExecThrow(e, error) == [e EXCEPT !.pc = "done", !.outcome = "threw", !.error = error]

\* Lines 41-54: the loop test, the pacing check, the fetch
\* (faulty variant: the loop test lets one more iteration through)
LoopTopOneMore(e) ==
    IF e.retries <= maxRetries + 1
    THEN IF e.sinceLast < minRequestInterval
         THEN Delay(e, "pacing", "pacing", minRequestInterval - e.sinceLast)
         ELSE BeginFetch(e)
    ELSE ExecThrow(e, "Failed after 3 retries")
LoopTop(e) ==
    IF e.retries <= maxRetries
    THEN IF e.sinceLast < minRequestInterval
         THEN Delay(e, "pacing", "pacing", minRequestInterval - e.sinceLast)
         ELSE BeginFetch(e)
    ELSE ExecThrow(e, "Failed after 3 retries")

\* Lines 79-92: the catch block, for an Error of the given name and message
Catch(e, name, message) ==
    IF name = "AbortError" THEN ExecThrow(e, "Request timed out")
    ELSE IF e.retries < maxRetries
         THEN Delay([e EXCEPT !.retries = @ + 1], "backoffWait", "backoff",
                    retryDelay * (e.retries + 1))
         ELSE ExecThrow(e, message)

\* The message of the error an attempt ends with: the 429 response (no Error is
\* built for it), the TypeError of a rejected fetch, the AbortError, the
\* SyntaxError of response.json()
AttemptError(kind) ==
    CASE kind = "rateLimit" -> "429 Too Many Requests"
      [] kind = "networkError" -> "fetch failed"
      [] kind = "timeout" -> "This operation was aborted"
      [] kind = "badBody" -> "Unexpected token < in JSON at position 0"
      [] OTHER -> ""

\* Lines 71-72 for a non-2xx response whose body read settled as `body`:
\* response.json().catch(() => ({ message: 'Unknown error occurred' })), then
\* `API request failed: ${error.message || response.statusText}`; reading
\* .message of null is a TypeError
ErrorOfBody(body) ==
    CASE body = "json" ->
           [name |-> "Error", message |-> "API request failed: backend overloaded"]
      [] body = "jsonNoMessage" ->
           [name |-> "Error", message |-> "API request failed: Internal Server Error"]
      [] body = "jsonNull" ->
           [name |-> "TypeError",
            message |-> "Cannot read properties of null (reading 'message')"]
      [] OTHER ->
           [name |-> "Error", message |-> "API request failed: Unknown error occurred"]

\* The attempt under way in e has ended (the finally of lines 76-78 clears the
\* timer; after a 429 it stays armed during the wait of line 65, with nothing
\* left to abort)
Ended(e, kind, header, error, aborted) ==
    [e EXCEPT !.last = [kind |-> kind, header |-> header, error |-> error,
                        retries |-> e.retries,
                        took |-> EffectiveTimeout(e.timeoutMs) - e.abortIn,
                        aborted |-> aborted],
              !.afterLast = << >>,
              !.abortIn = 0]

\* Lines 54-70 and 79-92 once the fetch has settled as `kind`: a response sets
\* lastRequestTime; a 2xx or other non-429 response goes on to read the body
FetchResult(e, kind, header) ==
    CASE kind = "ok" -> [e EXCEPT !.pc = "readingBody", !.sinceLast = 0]
      [] kind = "rateLimit" ->
           Delay([Ended(e, kind, header, AttemptError(kind), FALSE)
                    EXCEPT !.sinceLast = 0],
                 "retryAfterWait", "retryAfter",
                 TimerDelay(retryAfterMs(header, e.retries)))
      [] kind = "httpError" -> [e EXCEPT !.pc = "readingError", !.sinceLast = 0]
      [] kind = "networkError" ->
           Catch(Ended(e, kind, << >>, AttemptError(kind), FALSE),
                 "TypeError", AttemptError(kind))
      [] OTHER ->
           Catch(Ended(e, "timeout", << >>, AttemptError("timeout"), TRUE),
                 "AbortError", AttemptError("timeout"))

\* Lines 70-92 once response.json() has settled as `body`: line 75 returns the
\* parsed body or rejects into the catch block; the .catch of line 71 swallows
\* every rejection, that of an abort included
BodyResult(e, body) ==
    IF e.pc = "readingBody"
    THEN CASE body = "aborted" ->
                Catch(Ended(e, "timeout", << >>, AttemptError("timeout"), TRUE),
                      "AbortError", AttemptError("timeout"))
           [] body = "invalid" ->
                Catch(Ended(e, "badBody", << >>, AttemptError("badBody"), FALSE),
                      "SyntaxError", AttemptError("badBody"))
           [] OTHER -> ExecReturn(Ended(e, "ok", << >>, "", FALSE))
    ELSE Catch(Ended(e, "httpError", << >>, ErrorOfBody(body).message,
                     body = "aborted"),
               ErrorOfBody(body).name, ErrorOfBody(body).message)

ExecInit ==
    /\ cache = << >>
    /\ semanticCache = << >>
    /\ now = 0
    /\ useSemantic = TRUE
    /\ req = Idle
    /\ served = 0
    /\ lastOp = NoOp
    /\ puts = 0
    /\ sel = NoSelection(<< >>)
    /\ exec = NoExec
    /\ cls = NoText
    /\ tasks = NoTasks

\* makeRequest is called (lines 40-51) when no call is in progress
ExecCall(timeoutMs) ==
    /\ exec.pc \in {"idle", "done"}
    /\ exec' = LoopTop([NoExec EXCEPT !.timeoutMs = timeoutMs,
                                       !.sinceLast = exec.sinceLast,
                                       !.sinceStart = exec.sinceStart,
                                       !.startGap = exec.startGap])
    /\ UNCHANGED <<cache, semanticCache, now, useSemantic, req, served, lastOp, puts, sel, cls, tasks>>

\* The timeoutMs of the options that reach makeRequest when processPrompt invokes
\* a candidate: part_002 92 calls generateCompletion(prompt) without options,
\* llm-router.ts 52 passes them on; generateCompletion hands its options to
\* makeRequest (gemini-provider.ts 13-27)
PassedTimeout(router, timeoutMs) == IF router = "part_002" THEN 0 ELSE timeoutMs

\* processPrompt of the given router version, called with options.timeoutMs,
\* invokes a candidate whose generateCompletion calls makeRequest
ExecDispatch(router, timeoutMs) ==
    /\ exec.pc \in {"idle", "done"}
    /\ exec' = LoopTop([NoExec EXCEPT !.timeoutMs = PassedTimeout(router, timeoutMs),
                                       !.via = router,
                                       !.requested = timeoutMs,
                                       !.sinceLast = exec.sinceLast,
                                       !.sinceStart = exec.sinceStart,
                                       !.startGap = exec.startGap])
    /\ UNCHANGED <<cache, semanticCache, now, useSemantic, req, served, lastOp, puts, sel, cls, tasks>>

\* Time passes between two calls
ExecIdle(d) ==
    /\ exec.pc \in {"idle", "done"}
    /\ d > 0
    /\ exec.sinceLast < minRequestInterval \/ exec.sinceStart < minRequestInterval
    /\ exec' = Advance(exec, d)
    /\ UNCHANGED <<cache, semanticCache, now, useSemantic, req, served, lastOp, puts, sel, cls, tasks>>

\* The pacing timer of line 47 fires: on to the fetch
PacingElapses ==
    /\ exec.pc = "pacing"
    /\ exec' = BeginFetch(Advance(exec, exec.afterLast[Len(exec.afterLast)].ms))
    /\ UNCHANGED <<cache, semanticCache, now, useSemantic, req, served, lastOp, puts, sel, cls, tasks>>

\* The fetch of line 54 settles d milliseconds on (lines 54-70, 79-92): at the
\* latest when the abort timer fires
FetchSettles(kind, header, d) ==
    /\ exec.pc = "fetch"
    /\ kind # "rateLimit" => header = << >>
    /\ IF kind = "timeout" THEN d = exec.abortIn
                            ELSE d \in Durations /\ d <= exec.abortIn
    /\ exec' = FetchResult([Advance(exec, d) EXCEPT !.abortIn = @ - d], kind, header)
    /\ UNCHANGED <<cache, semanticCache, now, useSemantic, req, served, lastOp, puts, sel, cls, tasks>>

\* response.json() of line 71 or 75 settles d milliseconds on (lines 70-92): at
\* the latest when the abort timer, still armed, fires
BodySettles(body, d) ==
    /\ exec.pc \in {"readingBody", "readingError"}
    /\ exec.pc = "readingBody" => body \in {"json", "invalid", "aborted"}
    /\ IF body = "aborted" THEN d = exec.abortIn
                            ELSE d \in Durations /\ d <= exec.abortIn
    /\ exec' = BodyResult([Advance(exec, d) EXCEPT !.abortIn = @ - d], body)
    /\ UNCHANGED <<cache, semanticCache, now, useSemantic, req, served, lastOp, puts, sel, cls, tasks>>

\* The timer of line 65 fires: retries++ and continue
RetryAfterElapses ==
    /\ exec.pc = "retryAfterWait"
    /\ exec' = LoopTop([Advance(exec, exec.afterLast[Len(exec.afterLast)].ms)
                          EXCEPT !.retries = @ + 1])
    /\ UNCHANGED <<cache, semanticCache, now, useSemantic, req, served, lastOp, puts, sel, cls, tasks>>

\* The timer of line 86 fires: continue
BackoffElapses ==
    /\ exec.pc = "backoffWait"
    /\ exec' = LoopTop(Advance(exec, exec.afterLast[Len(exec.afterLast)].ms))
    /\ UNCHANGED <<cache, semanticCache, now, useSemantic, req, served, lastOp, puts, sel, cls, tasks>>

\* The steps of a call in progress: its timers fire, its fetch and its body
\* read settle
ExecProgress ==
    \/ PacingElapses
    \/ \E kind \in AttemptOutcomes, header \in RetryAfterHeaders,
          d \in Durations \cup {exec.abortIn} :
          FetchSettles(kind, header, d)
    \/ \E body \in BodyOutcomes, d \in Durations \cup {exec.abortIn} :
          BodySettles(body, d)
    \/ RetryAfterElapses
    \/ BackoffElapses

ExecNext ==
    \/ \E timeoutMs \in TimeoutOptions : ExecCall(timeoutMs)
    \/ \E router \in {"part_002", "llm-router.ts"}, timeoutMs \in TimeoutOptions :
          ExecDispatch(router, timeoutMs)
    \/ \E d \in Durations : ExecIdle(d)
    \/ ExecProgress

SpecExec == ExecInit /\ [][ExecNext]_vars

\* Timers fire, every fetch and every body read settles (the abort timer sees
\* to it)
SpecExecFair == SpecExec /\ WF_vars(ExecProgress)

--------------------------------------------------------------------------
(* Claims about the dispatcher (checked under Spec) *)

\* The fingerprint of the current call's text
ReqKey == generateCacheKey(req.prompt)

\* The exact index held an unexpired entry for the call's fingerprint when the
\* call was made
ExactEntryAtStart ==
    /\ ReqKey \in DOMAIN req.startCache
    /\ req.startedAt <= req.startCache[ReqKey].expiresAt

\* cos(v, w) = 0.99
Cos99(v, w) ==
    LET sim == calculateCosineSimilarity(v, w)
    IN  ~sim.threw /\ sim.den > 0 /\ 100 * sim.num = 99 * sim.den

\* Entries of the semantic index as it stood when the call was made that are
\* still unexpired and whose embedding is at cosine 0.99 from the embedding of
\* the call's text
SimilarAtStart ==
    {i \in 1..Len(req.startSem) :
        /\ now <= req.startSem[i].expiresAt
        /\ Cos99(BackendEmbedding("ClaudeProvider", req.prompt),
                 req.startSem[i].embedding)}

\* C1: the candidates are invoked one at a time in the order selectModels gave;
\* a candidate is only invoked after every candidate before it has failed; when
\* processPrompt returns a dispatched response, it is the response of a
\* candidate whose completion call succeeded; and processPrompt only gives up
\* once every candidate has been invoked.
C1_FirstSuccessWins ==
    /\ \A i \in 1..Len(req.invoked) :
          /\ i <= Len(req.models)
          /\ req.invoked[i].key = req.models[i]
          /\ i < Len(req.invoked) => req.invoked[i].outcome # "ok"
    /\ (req.pc \in {"cacheEmbedding", "done"} /\ req.invoked # << >> /\ req.via # "error")
          => /\ req.invoked[Len(req.invoked)].outcome = "ok"
             /\ req.pc = "done" =>
                  req.result = AnswerOf(req.invoked[Len(req.invoked)].key,
                                        req.prompt, req.n)
    /\ (req.pc = "done" /\ req.via = "error")
          => Len(req.invoked) = Len(req.models)

\* C2: when the completion call of every candidate has failed, processPrompt
\* throws 'All models failed to generate a response' and has written nothing to
\* the cache; no failure outcome is ever returned as a response, and none is
\* ever held by the exact or the semantic index.
C2_AllFailedNothingCached ==
    /\ (/\ req.pc = "done"
        /\ req.classified
        /\ \A i \in 1..Len(req.invoked) : req.invoked[i].outcome # "ok")
          => /\ req.via = "error"
             /\ req.error = "All models failed to generate a response"
             /\ ~req.wrote
    /\ req.result.kind # "error"
    /\ \A k \in DOMAIN cache : cache[k].response.kind # "error"
    /\ \A i \in 1..Len(semanticCache) : semanticCache[i].response.kind # "error"

\* C3: a call made with cacheResults not false while the exact index holds an
\* unexpired entry for its fingerprint (expiresAt >= now) has returned that
\* entry's response without awaiting anything: no embedding call, no
\* classification, no selection, no completion call.
C3_ExactHitReturnsImmediately ==
    (req.pc # "idle" /\ CachingEnabled(req.options) /\ ExactEntryAtStart)
      => /\ req.pc = "done"
         /\ req.via = "exact"
         /\ req.result = req.startCache[ReqKey].response
         /\ req.embedCalls = 0
         /\ ~req.classified
         /\ req.models = << >>
         /\ req.invoked = << >>

\* C3 witness: an exact hit on an entry at the very end of its life, served from
\* an entry an earlier call wrote.
C3_Witness ==
    /\ req.pc = "done"
    /\ req.via = "exact"
    /\ req.n = 2
    /\ req.startedAt = req.startCache[ReqKey].expiresAt
    /\ req.result.kind = "completion"

\* C4: with semantic caching on, a call with default options whose text misses
\* the exact index but whose embedding is at cosine 0.99 from the embedding of
\* an unexpired semantic entry returns a cached response of such an entry and
\* invokes no candidate.
C4_SemanticHitDefaultOptions ==
    (/\ useSemantic
     /\ req.pc = "done"
     /\ req.options = Options("", "", TRUE)
     /\ ReqKey \notin DOMAIN req.startCache
     /\ SimilarAtStart # {})
      => /\ req.invoked = << >>
         /\ \E i \in SimilarAtStart : req.result = req.startSem[i].response

\* C5: a call made with cacheResults false goes to dispatch (classification and
\* selection happen, no exact or semantic hit, no embedding call), and the exact
\* and the semantic index are at every point what they were when it was made.
C5_CacheDisabledBypass ==
    (req.pc # "idle" /\ req.options.cacheResults = FALSE)
      => /\ cache = req.startCache
         /\ semanticCache = req.startSem
         /\ req.classified
         /\ req.via \notin {"exact", "semantic"}
         /\ req.embedCalls = 0
         /\ ~req.wrote

\* C5 witness: a call with cacheResults false has returned a fresh completion
\* although the exact index held an unexpired entry for its fingerprint.
C5_Witness ==
    /\ req.pc = "done"
    /\ req.options.cacheResults = FALSE
    /\ ExactEntryAtStart
    /\ req.via = "dispatch"
    /\ req.result = AnswerOf(req.invoked[Len(req.invoked)].key, req.prompt, req.n)
    /\ req.result # req.startCache[ReqKey].response

\* C6: when processPrompt has returned a dispatched response with caching
\* enabled, the exact index holds an entry for the fingerprint with exactly that
\* response; when no embedding was obtained (the embedding call failed, or
\* semantic caching is off) the entry has no embedding and the semantic index
\* has no entry for the response; otherwise both carry the embedding obtained.
C6_SuccessIsCached ==
    (req.pc = "done" /\ req.via = "dispatch" /\ CachingEnabled(req.options))
      => /\ req.wrote
         /\ ReqKey \in DOMAIN cache
         /\ cache[ReqKey].response = req.result
         /\ cache[ReqKey].prompt = req.prompt
         /\ cache[ReqKey].embedding = req.stored
         /\ req.stored = NoEmbedding
              => \A i \in 1..Len(semanticCache) : semanticCache[i].response # req.result
         /\ req.stored # NoEmbedding
              => \E i \in 1..Len(semanticCache) :
                    /\ semanticCache[i].response = req.result
                    /\ semanticCache[i].embedding = req.stored[1]

\* C6 witness: the embedding call made after a successful completion failed, and
\* the response was returned and is in the exact index.
C6_Witness ==
    /\ req.pc = "done"
    /\ req.via = "dispatch"
    /\ useSemantic
    /\ req.embedCalls = 1
    /\ req.stored = NoEmbedding
    /\ req.result.kind = "completion"
    /\ cache[ReqKey].response = req.result

--------------------------------------------------------------------------
(* Claims about the CacheService (checked under SpecCache) *)

\* The similarity of a query to a stored embedding reaches the threshold 0.8
ReachesThreshold(query, stored) ==
    LET sim == calculateCosineSimilarity(query, stored)
    IN  ~sim.threw /\ sim.den > 0 /\ 10 * sim.num >= 8 * sim.den

\* The similarity of a query to a stored embedding strictly exceeds 0.8
ExceedsThreshold(query, stored) ==
    LET sim == calculateCosineSimilarity(query, stored)
    IN  ~sim.threw /\ sim.den > 0 /\ 10 * sim.num > 8 * sim.den

\* sim(query, a) < sim(query, b), for vectors of the query's length and non-zero norm
LessSimilar(query, a, b) ==
    LET sa == calculateCosineSimilarity(query, a)
        sb == calculateCosineSimilarity(query, b)
    IN  sa.num * sb.den < sb.num * sa.den

\* The last call was findSemantically and it returned (did not throw)
FindReturned == lastOp.op = "find" /\ ~lastOp.threw

\* Indices of the entries the last findSemantically found unexpired
LiveAtFind == {i \in 1..Len(lastOp.pre) : lastOp.pre[i].expiresAt >= now}

\* C7: set(f, .., r) followed immediately by get(f) returns r, the most recent
\* set winning; and a get(f) made after the entry's expiresAt has passed returns
\* undefined and leaves no entry for f in the exact index.
C7_PutThenGet ==
    [][ /\ (lastOp.op = "set" /\ lastOp'.op = "get" /\ lastOp'.key = lastOp.key)
            => lastOp'.result = lastOp.response
        /\ (lastOp'.op = "get" /\ lastOp'.pre # << >>
              /\ now' > lastOp'.pre[1].expiresAt)
            => (lastOp'.result = Undefined /\ lastOp'.key \notin DOMAIN cache')
      ]_vars

\* C7 witness: a get right at the time of the second set of the same key returned
\* the second set's response.
C7_Witness ==
    /\ lastOp.op = "get"
    /\ puts = 2
    /\ lastOp.pre # << >>
    /\ lastOp.pre[1].timestamp = now
    /\ lastOp.result = Response("completion", "direct", 2)

\* C7, the expiry half reached: a get of an entry whose expiresAt has passed
C7_ExpiredGetReached ==
    /\ lastOp.op = "get"
    /\ lastOp.pre # << >>
    /\ now > lastOp.pre[1].expiresAt
    /\ lastOp.result = Undefined

\* C8: get and findSemantically never return the response of an entry whose
\* expiresAt is earlier than now, and both keep an entry valid while
\* now <= expiresAt: get returns the stored response exactly when now <= expiresAt;
\* findSemantically returns only responses of entries with now <= expiresAt and
\* misses none of them that reaches the threshold.
C8_NoExpiredResult ==
    /\ (lastOp.op = "get" /\ lastOp.pre # << >>)
        => ((lastOp.result = lastOp.pre[1].response)
              <=> (now <= lastOp.pre[1].expiresAt))
    /\ (lastOp.op = "get" /\ lastOp.pre # << >> /\ now > lastOp.pre[1].expiresAt)
        => lastOp.result = Undefined
    /\ (FindReturned /\ lastOp.result # Undefined)
        => \E i \in LiveAtFind : lastOp.pre[i].response = lastOp.result
    /\ (FindReturned /\ lastOp.result = Undefined)
        => \A i \in LiveAtFind :
              ~ReachesThreshold(lastOp.embedding[1], lastOp.pre[i].embedding)

\* C8 witness: a findSemantically that skipped an expired entry reaching the
\* threshold and returned an entry exactly at its expiresAt.
C8_Witness ==
    /\ FindReturned
    /\ \E i \in 1..Len(lastOp.pre) :
          /\ lastOp.pre[i].expiresAt < now
          /\ ReachesThreshold(lastOp.embedding[1], lastOp.pre[i].embedding)
    /\ \E j \in 1..Len(lastOp.pre) :
          /\ lastOp.pre[j].expiresAt = now
          /\ lastOp.result = lastOp.pre[j].response

\* C9 as claimed: findSemantically returns the response of the unexpired entry most
\* similar to the query among those strictly above the threshold, undefined if none.
C9_HighestAboveThreshold ==
    FindReturned =>
        LET above == {i \in LiveAtFind :
                        ExceedsThreshold(lastOp.embedding[1], lastOp.pre[i].embedding)}
        IN  IF above = {}
            THEN lastOp.result = Undefined
            ELSE \E i \in above :
                    /\ lastOp.result = lastOp.pre[i].response
                    /\ \A j \in above :
                          ~LessSimilar(lastOp.embedding[1], lastOp.pre[i].embedding,
                                       lastOp.pre[j].embedding)

\* C9 as amended: findSemantically returns the response of an unexpired entry whose
\* similarity is at least the threshold (equality is a hit; it need not be the
\* most similar one), and undefined exactly when no unexpired entry reaches it.
C9_SomeAtLeastThreshold ==
    FindReturned =>
        LET hits == {i \in LiveAtFind :
                        ReachesThreshold(lastOp.embedding[1], lastOp.pre[i].embedding)}
        IN  /\ (hits = {}) <=> (lastOp.result = Undefined)
            /\ hits # {} => \E i \in hits : lastOp.result = lastOp.pre[i].response

\* C9 witness: the entry returned has similarity exactly 0.8 to the query and a
\* later unexpired entry is more similar.
C9_Witness ==
    /\ FindReturned
    /\ \E i, j \in LiveAtFind :
          /\ i < j
          /\ lastOp.result = lastOp.pre[i].response
          /\ ~ExceedsThreshold(lastOp.embedding[1], lastOp.pre[i].embedding)
          /\ LessSimilar(lastOp.embedding[1], lastOp.pre[i].embedding,
                         lastOp.pre[j].embedding)

\* Unexpired entries above the threshold that no other such entry beats
MostSimilarAtFind ==
    LET above == {i \in LiveAtFind :
                    ExceedsThreshold(lastOp.embedding[1], lastOp.pre[i].embedding)}
    IN  {i \in above : \A j \in above :
            ~LessSimilar(lastOp.embedding[1], lastOp.pre[i].embedding,
                         lastOp.pre[j].embedding)}

\* C10 as claimed: when several unexpired entries share the highest qualifying
\* similarity, the response of the earliest inserted of them is returned.
C10_EarliestOfMostSimilar ==
    (FindReturned /\ Cardinality(MostSimilarAtFind) >= 2)
        => \E i \in MostSimilarAtFind :
              /\ \A j \in MostSimilarAtFind : i <= j
              /\ lastOp.result = lastOp.pre[i].response

\* C10 as amended: the entry returned is the earliest inserted unexpired entry that
\* reaches the threshold, whatever the similarity of the later ones: no unexpired
\* entry inserted before it reaches the threshold.
C10_EarliestAtLeastThreshold ==
    (FindReturned /\ lastOp.result # Undefined)
        => \A i \in LiveAtFind :
              lastOp.pre[i].response = lastOp.result
                => \A j \in LiveAtFind :
                      j < i => ~ReachesThreshold(lastOp.embedding[1],
                                                 lastOp.pre[j].embedding)

\* C10 witness: two unexpired entries share the highest similarity and the first of
\* them was returned.
C10_Witness ==
    /\ FindReturned
    /\ Cardinality(MostSimilarAtFind) >= 2
    /\ \E i \in MostSimilarAtFind :
          /\ \A j \in MostSimilarAtFind : i <= j
          /\ lastOp.result = lastOp.pre[i].response

\* The fingerprint every direct set call of SpecCache writes under
TheKey == CHOOSE k \in CacheKeys : TRUE

\* C11: every entry of the semantic index has a corresponding entry in the exact
\* index: the entry of the same set call, or of a later set call for the same
\* fingerprint.
C11_SemanticHasExact ==
    \A i \in 1..Len(semanticCache) :
        /\ TheKey \in DOMAIN cache
        /\ cache[TheKey].timestamp >= semanticCache[i].timestamp

\* The unexpired entries of a semantic index, in their order
RECURSIVE LiveOnly(_, _)
LiveOnly(sem, t) ==
    IF sem = << >> THEN << >>
    ELSE IF Head(sem).expiresAt < t
         THEN LiveOnly(Tail(sem), t)
         ELSE << Head(sem) >> \o LiveOnly(Tail(sem), t)

\* C12: clearExpiredEntries, called directly or at the start of
\* findSemantically, leaves in the exact index exactly the entries it held with
\* expiresAt >= now, unchanged, and in the semantic index exactly the entries it
\* held with expiresAt >= now, in the same order; so the scan of
\* findSemantically, which runs after it, meets no expired entry.
C12_SweepRemovesExactlyExpired ==
    [][ lastOp'.op \in {"sweep", "find"}
          => /\ DOMAIN cache' = {k \in DOMAIN cache : cache[k].expiresAt >= now}
             /\ \A k \in DOMAIN cache' : cache'[k] = cache[k]
             /\ semanticCache' = LiveOnly(semanticCache, now)
             /\ \A i \in 1..Len(semanticCache') : semanticCache'[i].expiresAt >= now'
      ]_vars

\* C12 witness: a findSemantically met a semantic index holding an expired entry
\* between two unexpired ones and left the two, in their order.
C12_Witness ==
    /\ lastOp.op = "find"
    /\ Len(lastOp.pre) = 3
    /\ lastOp.pre[1].expiresAt >= now
    /\ lastOp.pre[2].expiresAt < now
    /\ lastOp.pre[3].expiresAt >= now
    /\ semanticCache = << lastOp.pre[1], lastOp.pre[3] >>

--------------------------------------------------------------------------
(* Claims about candidate selection (checked under SpecSelect) *)

\* A selection has been made
Selected == sel.router # "none"

\* The eligible set of the selection made: the registered configs that pass the
\* filters of the router that made it, in registration order
SelEligible ==
    IF sel.router = "part_002"
    THEN EligibleModels(Truthy(sel.options), sel.configs)
    ELSE EligibleModelsPlain(sel.options, sel.configs)

\* The config registered under a key, and its place in the registration order
ConfigOfKey(key) ==
    sel.configs[CHOOSE i \in 1..Len(sel.configs) : KeyOf(sel.configs[i]) = key]
RegPos(key) == CHOOSE i \in 1..Len(sel.configs) : KeyOf(sel.configs[i]) = key

\* The ordered list holds each eligible candidate once and nothing else
ListsEligible ==
    /\ Len(sel.models) = Len(SelEligible)
    /\ {sel.models[k] : k \in 1..Len(sel.models)}
         = {KeyOf(SelEligible[i]) : i \in 1..Len(SelEligible)}

\* The tiers the request of the selection may have had: llm-router.ts selects
\* without classifying, so its result stands for every tier
SelTiers == IF sel.router = "part_002" THEN {sel.complexity} ELSE Complexities

\* C13: when the filters leave no eligible candidate (and the strategy is not
\* specific-models without a list), no candidate is invoked and processPrompt
\* throws 'All models failed to generate a response', the error it throws when
\* every candidate failed.
C13_EmptyEligibleSameError ==
    (/\ Selected
     /\ SelEligible = << >>
     /\ ~(sel.options.fallbackStrategy = "specific-models"
            /\ sel.options.fallbackModels = << >>))
      => /\ sel.invokes = << >>
         /\ sel.error = "All models failed to generate a response"

\* C14: with cost-ascending the ordered list is the eligible set in
\* non-decreasing order of costPerInputToken + costPerOutputToken, candidates
\* of equal cost in registration order.
C14_CostAscending ==
    (Selected /\ sel.options.fallbackStrategy = "cost-ascending")
      => /\ ListsEligible
         /\ \A k, l \in 1..Len(sel.models) :
               k < l =>
                 LET a == ConfigOfKey(sel.models[k])
                     b == ConfigOfKey(sel.models[l])
                 IN  \/ TotalCost(a) < TotalCost(b)
                     \/ /\ TotalCost(a) = TotalCost(b)
                        /\ RegPos(sel.models[k]) < RegPos(sel.models[l])

\* C14 witness: llm-router.ts ordered by cost at least three candidates that
\* were registered in another order, two of them of equal cost.
C14_Witness ==
    /\ sel.router = "llm-router.ts"
    /\ sel.options.fallbackStrategy = "cost-ascending"
    /\ Len(sel.models) >= 3
    /\ \E k \in 1..Len(sel.models) - 1 :
          TotalCost(ConfigOfKey(sel.models[k])) = TotalCost(ConfigOfKey(sel.models[k + 1]))
    /\ \E k \in 1..Len(sel.models) : sel.models[k] # KeyOf(SelEligible[k])

\* C15: with capability-descending the ordered list is the eligible set in
\* non-increasing order of the one rating of the request's tier: speed for
\* SIMPLE, knowledge for MODERATE, reasoning for COMPLEX.
C15_SingleCapabilityDescending ==
    (Selected /\ sel.options.fallbackStrategy = "capability-descending")
      => /\ ListsEligible
         /\ \A tier \in SelTiers :
               \A k, l \in 1..Len(sel.models) :
                  k < l =>
                    ConfigOfKey(sel.models[k]).capabilities[capabilityKey(tier)]
                      >= ConfigOfKey(sel.models[l]).capabilities[capabilityKey(tier)]

\* C16: with specific-models and a non-empty fallbackModels the ordered list is
\* fallbackModels restricted to the registered keys, in the caller's order.
C16_SpecificModelsIntersection ==
    (/\ Selected
     /\ sel.options.fallbackStrategy = "specific-models"
     /\ sel.options.fallbackModels # << >>)
      => sel.models = Invocable(sel.options.fallbackModels, sel.configs)

\* C17: with specific-models and fallbackModels empty or unset, processPrompt
\* throws the configuration error and invokes no candidate, whatever the other
\* options.
C17_SpecificModelsNeedsList ==
    (/\ Selected
     /\ sel.options.fallbackStrategy = "specific-models"
     /\ sel.options.fallbackModels = << >>)
      => sel.error = "Fallback models must be specified when using specific-models strategy"

\* C18: with no strategy and a SIMPLE request, of two eligible candidates of
\* equal speed the cheaper is earlier in the list, and of two of equal cost the
\* faster is earlier.
C18_SimpleSpeedThenCost ==
    (Selected /\ sel.options.fallbackStrategy = "" /\ "SIMPLE" \in SelTiers)
      => /\ ListsEligible
         /\ \A k, l \in 1..Len(sel.models) :
               k < l =>
                 LET a == ConfigOfKey(sel.models[k])
                     b == ConfigOfKey(sel.models[l])
                 IN  /\ a.capabilities.speed = b.capabilities.speed
                          => TotalCost(a) <= TotalCost(b)
                     /\ TotalCost(a) = TotalCost(b)
                          => a.capabilities.speed >= b.capabilities.speed

\* C19: with no strategy and a MODERATE request, the eligible candidates are
\* ordered by the average of knowledge and reasoning, the higher first.
C19_ModerateAverageDescending ==
    (sel.router = "part_002" /\ sel.options.fallbackStrategy = ""
       /\ sel.complexity = "MODERATE")
      => /\ ListsEligible
         /\ \A k, l \in 1..Len(sel.models) :
               k < l =>
                 LET a == ConfigOfKey(sel.models[k])
                     b == ConfigOfKey(sel.models[l])
                 IN  a.capabilities.knowledge + a.capabilities.reasoning
                       >= b.capabilities.knowledge + b.capabilities.reasoning

\* The score the default strategy of part_002 compares for a tier: two
\* candidates compare equal exactly when they have the same score
DefaultScore(tier, m) ==
    CASE tier = "SIMPLE" -> m.capabilities.speed * 2 * CostScale + TotalCost(m)
      [] tier = "MODERATE" -> m.capabilities.knowledge + m.capabilities.reasoning
      [] OTHER -> m.capabilities.reasoning

\* C20: with no strategy, a COMPLEX request has its eligible candidates ordered
\* by reasoning, the highest first; and for every tier candidates of equal score
\* are in registration order.
C20_ComplexReasoningStable ==
    (sel.router = "part_002" /\ sel.options.fallbackStrategy = "")
      => /\ ListsEligible
         /\ \A k, l \in 1..Len(sel.models) :
               k < l =>
                 LET a == ConfigOfKey(sel.models[k])
                     b == ConfigOfKey(sel.models[l])
                 IN  /\ sel.complexity = "COMPLEX"
                          => a.capabilities.reasoning >= b.capabilities.reasoning
                     /\ DefaultScore(sel.complexity, a) = DefaultScore(sel.complexity, b)
                          => RegPos(sel.models[k]) < RegPos(sel.models[l])

\* C20 witness: a COMPLEX request over a registration in the opposite order of
\* index.ts, with two candidates of equal reasoning kept in that order and a
\* stronger one moved before them.
C20_Witness ==
    /\ sel.router = "part_002"
    /\ sel.options.fallbackStrategy = ""
    /\ sel.complexity = "COMPLEX"
    /\ Len(sel.models) >= 3
    /\ sel.models[1] = ModelKey("anthropic", "claude-3-opus")
    /\ sel.models[2] = ModelKey("anthropic", "claude-3-7-sonnet")
    /\ sel.models[3] = ModelKey("openai", "gpt-4-turbo")
    /\ KeyOf(sel.configs[1]) # ModelKey("anthropic", "claude-3-opus")

\* The keys of the ordered list, and the estimate the cost filter compares:
\* the cost of 1000 input and 1000 output tokens
ListedKeys == {sel.models[k] : k \in 1..Len(sel.models)}
EstimatedCost(m) == 1000 * m.costPerInputToken + 1000 * m.costPerOutputToken

\* A registered config matches preferredProvider and preferredModel (when set)
\* and rates at least the minimum on every capability of minCapability
MatchesFilters(m) ==
    /\ sel.options.preferredProvider # "" => m.provider = sel.options.preferredProvider
    /\ sel.options.preferredModel # "" => m.name = sel.options.preferredModel
    /\ \A k \in 1..Len(sel.options.minCapability) :
          m.capabilities[sel.options.minCapability[k][1]] >= sel.options.minCapability[k][2]

\* C21: whenever the caller gives maxCost (0 included) and the strategy is
\* cost-ascending, capability-descending or the default, the ordered list holds
\* exactly the registered configs that pass the other filters and whose
\* estimated cost does not exceed maxCost.
C21_MaxCostBounds ==
    (/\ Selected
     /\ sel.options.maxCost # << >>
     /\ sel.options.fallbackStrategy # "specific-models")
      => ListedKeys
           = {KeyOf(sel.configs[i]) : i \in
                {j \in 1..Len(sel.configs) :
                   /\ MatchesFilters(sel.configs[j])
                   /\ EstimatedCost(sel.configs[j]) <= sel.options.maxCost[1]}}

\* C22: for those strategies every listed candidate is a registered config that
\* matches preferredProvider, preferredModel and every minimum of minCapability
\* (a rating equal to the minimum passes), and with no maxCost every such
\* config is listed.
C22_FiltersExact ==
    (Selected /\ sel.options.fallbackStrategy # "specific-models")
      => /\ \A key \in ListedKeys :
               /\ \E i \in 1..Len(sel.configs) : KeyOf(sel.configs[i]) = key
               /\ MatchesFilters(ConfigOfKey(key))
         /\ sel.options.maxCost = << >>
              => \A i \in 1..Len(sel.configs) :
                    MatchesFilters(sel.configs[i]) => KeyOf(sel.configs[i]) \in ListedKeys

\* C22 witness: with minimums on reasoning and speed, gemini-1.5-pro (equal to
\* both minimums) is listed while gpt-4-turbo (below on speed only) and
\* gemini-1.5-flash (below on reasoning only) are registered and excluded.
C22_Witness ==
    /\ Selected
    /\ sel.options.fallbackStrategy # "specific-models"
    /\ sel.options.minCapability = << << "reasoning", 8 >>, << "speed", 7 >> >>
    /\ sel.options.preferredProvider = ""
    /\ ModelKey("google", "gemini-1.5-pro") \in ListedKeys
    /\ \E i, j \in 1..Len(sel.configs) :
          /\ KeyOf(sel.configs[i]) = ModelKey("openai", "gpt-4-turbo")
          /\ KeyOf(sel.configs[j]) = ModelKey("google", "gemini-1.5-flash")
    /\ ModelKey("openai", "gpt-4-turbo") \notin ListedKeys
    /\ ModelKey("google", "gemini-1.5-flash") \notin ListedKeys

--------------------------------------------------------------------------
(* Claims about the errors of processPrompt *)

\* The errors the caller may see
ValidationError == "Prompt must be a non-empty string"
ConfigurationError == "Fallback models must be specified when using specific-models strategy"
AllCandidatesFailed == "All models failed to generate a response"

\* C23: the error with which a processPrompt call of either router ends
\* without having invoked a candidate is the validation, the configuration or
\* the all-candidates-failed error: no other error reaches the caller.
C23_OnlyTerminalErrorsPropagate ==
    (Selected /\ sel.error # "")
      => sel.error \in {ValidationError, ConfigurationError, AllCandidatesFailed}

\* C24: a processPrompt call with the empty text ends with the validation
\* error, without any outbound completion call and without a cache write.
C24_EmptyTextRejected ==
    (req.pc = "done" /\ req.prompt = "")
      => /\ req.via = "error"
         /\ req.error = ValidationError
         /\ \A k \in 1..Len(req.invoked) : ~req.invoked[k].called
         /\ ~req.wrote

\* C25: when caching and the semantic lookup are on, there was no exact hit, and
\* the lookup's embedding provider is missing or its embedding call rejected,
\* the call is classified and dispatched with the candidates selectModels gives,
\* never answered from the semantic index, and the only error it can end with is
\* the all-candidates-failed error.
C25_LookupFailureSwallowed ==
    (/\ req.pc \notin {"idle", "lookupEmbedding"}
     /\ CachingEnabled(req.options)
     /\ useSemantic
     /\ req.via # "exact"
     /\ primaryProvider(req.options) = << >> \/ req.lookupFailed)
      => /\ req.classified
         /\ req.models = selectModels(classifyTask(FeaturesOf(req.prompt)), req.options,
                                      ModelConfigs).models
         /\ req.via # "semantic"
         /\ req.via = "error" => req.error = AllCandidatesFailed
         /\ req.pc = "done" => req.invoked # << >>

\* C25 witness: the semantic index held an entry when the call was made, the
\* lookup's embedding call rejected, and the call was answered by a candidate.
C25_Witness ==
    /\ req.pc = "done"
    /\ req.lookupFailed
    /\ req.startSem # << >>
    /\ req.via = "dispatch"
    /\ req.result.kind = "completion"

--------------------------------------------------------------------------
(* Claims about the resilient executor (checked under SpecExec, SpecExecFair) *)

\* A makeRequest call is in progress
InCall == exec.pc \notin {"idle", "done"}

\* The kinds of the delays taken since the last attempt ended
DelayKinds == {exec.afterLast[k].kind : k \in 1..Len(exec.afterLast)}

\* C26: once an attempt has been cancelled by the abort timer, the call has
\* failed with the timeout error: no delay was taken and no further attempt made
\* after it, however many retries had been used.
C26_TimeoutIsTerminal ==
    exec.last.aborted
      => /\ exec.pc = "done"
         /\ exec.outcome = "threw"
         /\ exec.error = "Request timed out"
         /\ exec.afterLast = << >>
         /\ exec.attempts = exec.last.retries + 1
         /\ exec.retries = exec.last.retries

\* C27: a makeRequest call never makes more than 1 + 3 attempts, whatever the
\* outcomes of its attempts, and every call ends by returning or throwing.
C27_BoundedAttempts ==
    /\ [](exec.attempts <= 1 + 3 /\ exec.retries <= 1 + 3)
    /\ [](exec.pc = "done" => exec.outcome \in {"returned", "threw"})
    /\ (InCall ~> exec.pc = "done")

\* C27 witness: a call that returned on its fourth attempt, the one before
\* having ended with a 429 response.
C27_Witness ==
    /\ exec.pc = "done"
    /\ exec.attempts = 4
    /\ exec.outcome = "returned"

\* C28: the delay taken before the k-th retry after a non-timeout error is
\* 2000 ms doubled k - 1 times: 2000, 4000, 8000.
C28_ExponentialBackoff ==
    exec.pc = "backoffWait"
      => exec.afterLast[Len(exec.afterLast)].ms
           = CASE exec.retries = 1 -> 2000
               [] exec.retries = 2 -> 4000
               [] OTHER -> 8000

\* A 429 response whose Retry-After header has a value
CarriesDelay(header) == header # << >> /\ header[1] # << >>

\* The delay in milliseconds the server suggests with a Retry-After value:
\* the seconds it gives, or the time left until the date it gives
SuggestedMs(header) ==
    CASE header = << << "0" >> >> -> 0
      [] header = << << "3" >> >> -> 3000
      [] header = << << "1", ".", "5" >> >> -> 1500
      [] header = << HttpDate >> -> 60 * 1000

\* The whole seconds a Retry-After value begins with, in milliseconds; none
\* for a value that does not begin with a number
WholeSecondsMs(header) ==
    CASE header = << << "0" >> >> -> 0
      [] header = << << "3" >> >> -> 3000
      [] header = << << "1", ".", "5" >> >> -> 1000
      [] header = << HttpDate >> -> 0

\* The milliseconds of the delays in `delays` together
RECURSIVE TotalMs(_)
TotalMs(delays) ==
    IF delays = << >> THEN 0 ELSE delays[1].ms + TotalMs(Tail(delays))

\* The attempt that follows the last ended one has begun
NextAttemptBegun == exec.pc \in {"fetch", "readingBody", "readingError"}

\* C29 (as stated): after a 429 response whose Retry-After header suggests a
\* delay, the next attempt begins exactly that delay after the response, no
\* backoff delay having been taken, with one more retry counted.
C29_WaitsExactlySuggested ==
    (/\ exec.last.kind = "rateLimit"
     /\ CarriesDelay(exec.last.header)
     /\ NextAttemptBegun)
      => /\ TotalMs(exec.afterLast) = SuggestedMs(exec.last.header)
         /\ "backoff" \notin DelayKinds
         /\ exec.retries = exec.last.retries + 1

\* C29 (amended): after a 429 response with a Retry-After value, the delay
\* taken is the whole seconds the value begins with, or the 1 ms of the
\* shortest timer when these are zero or the value does not begin with a
\* number, and no backoff delay is taken; the retry counter is one more than
\* before once the delay is over; and the next attempt begins when the delay is
\* over or, the delay being shorter than minRequestInterval, after a pacing
\* delay that ends minRequestInterval after the response.
C29_RetryAfterHonoured ==
    LET waited == IF WholeSecondsMs(exec.last.header) = 0 THEN 1
                  ELSE WholeSecondsMs(exec.last.header)
    IN  (exec.last.kind = "rateLimit" /\ CarriesDelay(exec.last.header))
          => /\ exec.afterLast # << >>
             /\ exec.afterLast[1] = [kind |-> "retryAfter", ms |-> waited]
             /\ "backoff" \notin DelayKinds
             /\ exec.pc # "retryAfterWait" => exec.retries = exec.last.retries + 1
             /\ NextAttemptBegun
                  => exec.afterLast
                       = IF waited >= 1000
                         THEN << [kind |-> "retryAfter", ms |-> waited] >>
                         ELSE << [kind |-> "retryAfter", ms |-> waited],
                                 [kind |-> "pacing", ms |-> 1000 - waited] >>

\* C29 witness: the attempt after a 429 response with Retry-After: 1.5 is
\* under way, 1000 ms after the response, following an earlier retry.
C29_Witness ==
    /\ exec.pc = "fetch"
    /\ exec.last.kind = "rateLimit"
    /\ exec.last.header = << << "1", ".", "5" >> >>
    /\ exec.last.retries = 1
    /\ exec.retries = 2
    /\ exec.afterLast = << [kind |-> "retryAfter", ms |-> 1000] >>

\* C30: a call that throws with its retries used up, its last attempt having
\* failed with a non-timeout error or a 429 response, throws the error of that
\* last attempt.
C30_LastErrorSurfaced ==
    (/\ exec.pc = "done"
     /\ exec.outcome = "threw"
     /\ exec.last.kind \in {"httpError", "networkError", "badBody", "rateLimit"})
      => exec.error = exec.last.error

\* C31: in any sequence of makeRequest calls made one after the other on one
\* provider instance, every fetch begins at least 1000 ms after the one before
\* it began, and no call throws for having come too early.
C31_StartsPaced ==
    /\ exec.startGap >= 1000
    /\ exec.outcome = "threw"
         => exec.error \in {"Request timed out", "Failed after 3 retries",
                            AttemptError("networkError"), AttemptError("badBody")}
                             \cup {ErrorOfBody(body).message : body \in BodyOutcomes}

\* C33: every attempt made for a processPrompt request ends within the
\* timeoutMs of the request's options, or within 30000 ms when the options
\* have none, and an attempt that is cancelled is cancelled at that time.
C33_TimeoutBoundsAttempts ==
    (exec.via # "makeRequest" /\ exec.last.kind # "none")
      => LET bound == IF exec.requested # 0 THEN exec.requested ELSE 30000
         IN  /\ exec.last.took <= bound
             /\ exec.last.kind = "timeout" => exec.last.took = bound

--------------------------------------------------------------------------
(* Claims about the classifier (checked under SpecClassify) *)

\* C34: the tier returned is the first of SIMPLE, MODERATE, COMPLEX that has a
\* pattern occurring in the text, whatever its length, and calling classifyTask
\* again on the same text returns the same tier.
C34_FirstMatchingTierWins ==
    [][/\ cls'.text = cls.text
       /\ "what is" \in cls.text.phrases => cls'.tier = "SIMPLE"
       /\ ("what is" \notin cls.text.phrases /\ "explain" \in cls.text.phrases)
             => cls'.tier = "MODERATE"
       /\ (cls.text.phrases = {"design a"}) => cls'.tier = "COMPLEX"
       /\ cls.tier # "" => cls'.tier = cls.tier]_vars

\* C34 witness: a text of more than 150 words with phrases of all three tiers
\* is SIMPLE.
C34_Witness ==
    /\ cls.text # << >>
    /\ cls.text.phrases = {"what is", "explain", "design a"}
    /\ cls.text.words = 151
    /\ cls.tier = "SIMPLE"

\* C35: a text in which no pattern occurs is SIMPLE when it has at most 50
\* words, MODERATE when it has 51 to 150, COMPLEX when it has more, whatever
\* whitespace is before, between and after its words.
C35_WordCountOnly ==
    (cls.tier # "" /\ cls.text.phrases = {})
      => cls.tier = (IF cls.text.words <= 50 THEN "SIMPLE"
                     ELSE IF cls.text.words <= 150 THEN "MODERATE"
                     ELSE "COMPLEX")

--------------------------------------------------------------------------
(* More claims about processPrompt (checked under Spec) *)

\* The embedding vectors the backends give
BackendVectors ==
    {BackendEmbedding(impl, prompt) : impl \in {"ClaudeProvider", "GeminiProvider"},
                                      prompt \in Prompts}

\* C36: the similarity computation throws on two vectors of different lengths;
\* and a call whose semantic lookup threw for that reason is classified and
\* dispatched with the candidates selectModels gives, is not answered from the
\* semantic index, and can only end in error with the all-candidates-failed
\* error.
C36_DimensionMismatchAbsorbed ==
    /\ \A v, w \in BackendVectors :
          Len(v) # Len(w) => calculateCosineSimilarity(v, w).threw
    /\ req.similarityThrew
         => /\ req.classified
            /\ req.models = selectModels(classifyTask(FeaturesOf(req.prompt)), req.options,
                                         ModelConfigs).models
            /\ req.via # "semantic"
            /\ req.via = "error" => req.error = AllCandidatesFailed
            /\ req.pc = "done" => req.invoked # << >>

\* C36 witness: the semantic index held an entry whose embedding is of another
\* length than the query's; the lookup threw and the call was answered by a
\* candidate.
C36_Witness ==
    /\ req.pc = "done"
    /\ req.similarityThrew
    /\ req.via = "dispatch"
    /\ req.result.kind = "completion"
    /\ \E k \in 1..Len(req.startSem) :
          Len(req.startSem[k].embedding)
            # Len(BackendEmbedding(primaryProvider(req.options)[1], req.prompt))

--------------------------------------------------------------------------
(* One more claim about candidate selection (checked under SpecSelect) *)

\* C37: no selection changes the registered candidate list, in content or in
\* order (and with it the keys of the provider map): the list after every step
\* is the list before it.
C37_RegistryUnchanged == [][sel'.configs = sel.configs]_vars

\* C37 witness: a selection with no filter applied sorted all registered
\* candidates into an order that is not the registration order.
C37_Witness ==
    /\ Selected
    /\ ~sel.threw
    /\ SortedArray(sel.router, sel.options) = FirstArray
    /\ sel.options.fallbackStrategy # "specific-models"
    /\ Len(sel.models) = Len(sel.configs)
    /\ Len(sel.configs) >= 2
    /\ sel.models # [i \in 1..Len(sel.configs) |-> KeyOf(sel.configs[i])]

--------------------------------------------------------------------------
(* One more claim about processPrompt (checked under Spec) *)

\* The step ends a call with an answer from the cache
AnsweredFromCache ==
    /\ req.pc # "done" \/ req'.n # req.n
    /\ req'.pc = "done"
    /\ req'.via \in {"exact", "semantic"}

\* C39: a step that answers a call from the cache (exact or semantic hit) writes
\* nothing: every exact entry afterwards was there before, unchanged; the
\* semantic entries afterwards are entries from before, unchanged and in their
\* order; after a semantic hit the text's fingerprint is not in the exact index;
\* the entry returned keeps its expiresAt; and the call as a whole made no cache
\* write.
C39_HitWritesNothing ==
    [][AnsweredFromCache
         => /\ ~req'.wrote
            /\ DOMAIN cache' \subseteq DOMAIN cache
            /\ \A k \in DOMAIN cache' : cache'[k] = cache[k]
            /\ Len(semanticCache') <= Len(semanticCache)
            /\ \E keep \in SUBSET (1..Len(semanticCache)) :
                  semanticCache' = SubSeqAt(semanticCache, keep, 1)
            /\ req'.via = "exact"
                 => /\ generateCacheKey(req'.prompt) \in DOMAIN cache'
                    /\ cache'[generateCacheKey(req'.prompt)].response = req'.result
                    /\ cache'[generateCacheKey(req'.prompt)].expiresAt
                         = cache[generateCacheKey(req'.prompt)].expiresAt
            /\ req'.via = "semantic"
                 => /\ generateCacheKey(req'.prompt) \notin DOMAIN cache'
                    /\ \E i \in 1..Len(semanticCache') :
                          semanticCache'[i].response = req'.result]_vars

\* C39 witness: a call was answered from the semantic index for a text whose
\* fingerprint is not cached, some time after the entry was written.
C39_Witness ==
    /\ req.pc = "done"
    /\ req.via = "semantic"
    /\ ~req.wrote
    /\ generateCacheKey(req.prompt) \notin DOMAIN cache
    /\ \E i \in 1..Len(semanticCache) :
          /\ semanticCache[i].response = req.result
          /\ semanticCache[i].timestamp < now

--------------------------------------------------------------------------
(* LLMProvider.makeRequest, several callers on one provider (SpecShared) *)

\* makeRequest is an async function: callers interleave at its awaits (the
\* pacing timer of line 47, the fetch of line 54, response.json() of lines 71
\* and 75, the timers of lines 65 and 86), and share this.lastRequestTime.  Here `now` is Date.now(), and tasks
\* holds
\*   lastRequestTime  the field of line 8
\*   callers          for each caller its position (pc as in exec), retries,
\*                    attempts, timeoutMs, and wakeAt: when its timer is due
\*                    (for an attempt under way, when the abort timer is due)
\*   lastStart        when and by whom fetch was last called
\*   crossGap         the least time seen between a fetch call and the next
\*                    fetch call by another caller, up to minRequestInterval
\*   ticks            the clock steps taken
Callers == {"A", "B"}

NoCaller ==
    [pc |-> "idle", timeoutMs |-> 0, retries |-> 0, attempts |-> 0, wakeAt |-> 0,
     outcome |-> ""]

\* now - this.lastRequestTime, followed up to minRequestInterval
SinceLastRequest ==
    IF now - tasks.lastRequestTime > minRequestInterval THEN minRequestInterval
    ELSE now - tasks.lastRequestTime

\* The caller's makeRequest call as the sequential steps above see it
ViewOf(c) ==
    [NoExec EXCEPT !.pc = tasks.callers[c].pc,
                   !.timeoutMs = tasks.callers[c].timeoutMs,
                   !.retries = tasks.callers[c].retries,
                   !.attempts = tasks.callers[c].attempts,
                   !.sinceLast = SinceLastRequest,
                   !.abortIn = IF /\ tasks.callers[c].pc
                                      \in {"fetch", "readingBody", "readingError"}
                                   /\ tasks.callers[c].wakeAt > now
                                THEN tasks.callers[c].wakeAt - now
                                ELSE 0]

\* ... and back: the timers set are due from now, and the abort timer stays
\* as it is while the body is read
CallerFrom(c, e) ==
    [pc |-> e.pc, timeoutMs |-> e.timeoutMs, retries |-> e.retries,
     attempts |-> e.attempts,
     wakeAt |-> CASE e.pc = "fetch" -> now + EffectiveTimeout(e.timeoutMs)
                  [] e.pc \in {"readingBody", "readingError"} -> tasks.callers[c].wakeAt
                  [] e.pc \in {"pacing", "retryAfterWait", "backoffWait"} ->
                       now + e.afterLast[Len(e.afterLast)].ms
                  [] OTHER -> 0,
     outcome |-> e.outcome]

\* Caller c has run up to its next await (or to its end), reaching e
Reached(c, e) ==
    LET starts == e.pc = "fetch" /\ tasks.callers[c].pc # "fetch"
    IN  [tasks EXCEPT
           !.callers[c] = CallerFrom(c, e),
           !.lastStart = IF starts THEN [at |-> now, by |-> c] ELSE @,
           !.crossGap = IF /\ starts
                           /\ tasks.lastStart.by \notin {"", c}
                           /\ now - tasks.lastStart.at < @
                        THEN now - tasks.lastStart.at
                        ELSE @]

\* The clock starts a minRequestInterval past lastRequestTime = 0, as any
\* Date.now() is
SharedInit ==
    /\ cache = << >>
    /\ semanticCache = << >>
    /\ now = minRequestInterval
    /\ useSemantic = TRUE
    /\ req = Idle
    /\ served = 0
    /\ lastOp = NoOp
    /\ puts = 0
    /\ sel = NoSelection(<< >>)
    /\ exec = NoExec
    /\ cls = NoText
    /\ tasks = [lastRequestTime |-> 0,
                callers |-> [c \in Callers |-> NoCaller],
                lastStart |-> [at |-> 0, by |-> ""],
                crossGap |-> minRequestInterval,
                ticks |-> 0]

\* Caller c calls makeRequest and runs to its first await (lines 40-54)
SharedCall(c, timeoutMs) ==
    /\ tasks.callers[c].pc = "idle"
    /\ tasks' = Reached(c, LoopTop([ViewOf(c) EXCEPT !.timeoutMs = timeoutMs]))
    /\ UNCHANGED <<cache, semanticCache, now, useSemantic, req, served, lastOp, puts, sel, exec, cls>>

\* A timer of caller c fires, at or after its time: after the pacing timer the
\* fetch is called (lines 47-54), after the others the loop goes round
SharedTimerFires(c) ==
    /\ tasks.callers[c].pc \in {"pacing", "retryAfterWait", "backoffWait"}
    /\ now >= tasks.callers[c].wakeAt
    /\ tasks' = Reached(c,
                   CASE tasks.callers[c].pc = "pacing" -> BeginFetch(ViewOf(c))
                     [] tasks.callers[c].pc = "retryAfterWait" ->
                          LoopTop([ViewOf(c) EXCEPT !.retries = @ + 1])
                     [] OTHER -> LoopTop(ViewOf(c)))
    /\ UNCHANGED <<cache, semanticCache, now, useSemantic, req, served, lastOp, puts, sel, exec, cls>>

\* The fetch of caller c settles (lines 54-70, 79-92).  The abort timer fires
\* at or after its time, like every timer; until it has fired the fetch can
\* still resolve or reject, however late.  A response sets lastRequestTime.
SharedFetchSettles(c, kind, header) ==
    /\ tasks.callers[c].pc = "fetch"
    /\ kind # "rateLimit" => header = << >>
    /\ kind = "timeout" => now >= tasks.callers[c].wakeAt
    /\ tasks' = [Reached(c, FetchResult(ViewOf(c), kind, header)) EXCEPT
                   !.lastRequestTime =
                      IF kind \in {"ok", "rateLimit", "httpError"} THEN now ELSE @]
    /\ UNCHANGED <<cache, semanticCache, now, useSemantic, req, served, lastOp, puts, sel, exec, cls>>

\* response.json() of caller c settles (lines 70-92): aborted once the timer
\* has fired, at or after its time; read or failed at any time before that
SharedBodySettles(c, body) ==
    /\ tasks.callers[c].pc \in {"readingBody", "readingError"}
    /\ tasks.callers[c].pc = "readingBody" => body \in {"json", "invalid", "aborted"}
    /\ body = "aborted" => now >= tasks.callers[c].wakeAt
    /\ tasks' = Reached(c, BodyResult(ViewOf(c), body))
    /\ UNCHANGED <<cache, semanticCache, now, useSemantic, req, served, lastOp, puts, sel, exec, cls>>

\* Date.now() moves on
SharedTick(d) ==
    /\ d > 0
    /\ tasks.ticks < MaxTicks
    /\ now' = now + d
    /\ tasks' = [tasks EXCEPT !.ticks = @ + 1]
    /\ UNCHANGED <<cache, semanticCache, useSemantic, req, served, lastOp, puts, sel, exec, cls>>

SharedNext ==
    \/ \E c \in Callers, timeoutMs \in {0, 500} : SharedCall(c, timeoutMs)
    \/ \E c \in Callers : SharedTimerFires(c)
    \/ \E c \in Callers, kind \in AttemptOutcomes, header \in RetryAfterHeaders :
          SharedFetchSettles(c, kind, header)
    \/ \E c \in Callers, body \in BodyOutcomes : SharedBodySettles(c, body)
    \/ \E d \in Durations : SharedTick(d)

SpecShared == SharedInit /\ [][SharedNext]_vars

\* C32: with several callers on one executor, no fetch is called less than
\* minRequestInterval after a fetch call of another caller; and once no attempt
\* is under way, lastRequestTime is not older than the latest fetch call.
C32_CallersPaced ==
    /\ tasks.crossGap >= minRequestInterval
    /\ (\A c \in Callers :
           tasks.callers[c].pc \notin {"fetch", "readingBody", "readingError"})
         => tasks.lastRequestTime >= tasks.lastStart.at

--------------------------------------------------------------------------
(* LLMRouter.processPrompt, two calls in progress at once (SpecRace) *)

\* processPrompt is an async function: calls interleave at its awaits (lines
\* 58, 92 and 100) and share the CacheService.  tasks holds
\*   calls   the two processPrompt calls, as req above
\*   writes  the cacheService.set calls made, in order: by which call, with
\*           which response, with or without embedding
Racers == {1, 2}

\* Call i is made and runs to its first await, or to its end (lines 39-81)
RaceStart(i, prompt, options) ==
    /\ tasks.calls[i].pc = "idle"
    /\ LET r == Call(i, prompt, options, now, cache, semanticCache)
           got == CacheGet(cache, generateCacheKey(prompt), now)
       IN  IF CachingEnabled(options)
           THEN /\ cache' = got.cache
                /\ tasks' = [tasks EXCEPT !.calls[i] =
                               IF got.result # Undefined
                               THEN Return(r, "exact", got.result)
                               ELSE IF useSemantic /\ primaryProvider(options) # << >>
                                    THEN [r EXCEPT !.pc = "lookupEmbedding"]
                                    ELSE BeginDispatch(r)]
           ELSE /\ cache' = cache
                /\ tasks' = [tasks EXCEPT !.calls[i] = BeginDispatch(r)]
    /\ UNCHANGED <<semanticCache, now, useSemantic, req, served, lastOp, puts, sel, exec, cls>>

\* primaryProvider.generateEmbedding(prompt) of call i settles (lines 58-71)
RaceLookupEmbeddingReturns(i, outcome) ==
    /\ tasks.calls[i].pc = "lookupEmbedding"
    /\ LET call == tasks.calls[i]
           e == generateEmbedding(primaryProvider(call.options)[1], call.prompt, outcome)
           r == [call EXCEPT !.embedCalls = @ + 1]
           f == findSemantically(cache, semanticCache, e.embedding[1], now)
       IN  IF e.threw
           THEN /\ tasks' = [tasks EXCEPT !.calls[i] = AfterLookup(r, TRUE, Undefined)]
                /\ UNCHANGED <<cache, semanticCache>>
           ELSE /\ cache' = f.cache
                /\ semanticCache' = f.semanticCache
                /\ tasks' = [tasks EXCEPT !.calls[i] =
                               AfterLookup([r EXCEPT !.similarityThrew = f.threw], FALSE,
                                           IF f.threw THEN Undefined ELSE f.result)]
    /\ UNCHANGED <<now, useSemantic, req, served, lastOp, puts, sel, exec, cls>>

\* modelProvider.generateCompletion(prompt) of call i settles (lines 90-113)
RaceCompletionReturns(i, outcome) ==
    /\ tasks.calls[i].pc = "completion"
    /\ LET call == tasks.calls[i]
           key == call.models[call.idx]
           impl == getProviderByName(key[1], key[2])[1]
           g == generateCompletion(impl, key, call.prompt, outcome, call.n)
           r == [call EXCEPT !.invoked = Append(@, [key |-> key, called |-> g.called,
                                                    outcome |-> IF g.called THEN outcome
                                                                ELSE "invalid"])]
       IN  IF g.threw
           THEN /\ tasks' = [tasks EXCEPT !.calls[i] = TryFrom(r, call.idx + 1)]
                /\ UNCHANGED <<cache, semanticCache>>
           ELSE IF CachingEnabled(call.options)
                THEN IF useSemantic
                     THEN /\ tasks' = [tasks EXCEPT !.calls[i] =
                                         [r EXCEPT !.pc = "cacheEmbedding",
                                                   !.response = g.response]]
                          /\ UNCHANGED <<cache, semanticCache>>
                     ELSE /\ cache' = CacheSetExact(cache, generateCacheKey(call.prompt),
                                                    call.prompt, g.response, NoEmbedding,
                                                    0, now)
                          /\ semanticCache' = CacheSetSemantic(semanticCache, g.response,
                                                               NoEmbedding, 0, now)
                          /\ tasks' = [tasks EXCEPT
                                         !.calls[i] = [Return(r, "dispatch", g.response)
                                                         EXCEPT !.wrote = TRUE],
                                         !.writes = Append(@, [n |-> i,
                                                               response |-> g.response,
                                                               embedding |-> NoEmbedding])]
                ELSE /\ tasks' = [tasks EXCEPT !.calls[i] =
                                    Return(r, "dispatch", g.response)]
                     /\ UNCHANGED <<cache, semanticCache>>
    /\ UNCHANGED <<now, useSemantic, req, served, lastOp, puts, sel, exec, cls>>

\* modelProvider.generateEmbedding(prompt) of call i settles (lines 100-109)
RaceCacheEmbeddingReturns(i, outcome) ==
    /\ tasks.calls[i].pc = "cacheEmbedding"
    /\ LET call == tasks.calls[i]
           key == call.models[call.idx]
           impl == getProviderByName(key[1], key[2])[1]
           e == generateEmbedding(impl, call.prompt, outcome)
           embedding == IF e.threw THEN NoEmbedding ELSE e.embedding
           r == [call EXCEPT !.embedCalls = @ + 1, !.stored = embedding, !.wrote = TRUE]
       IN  /\ cache' = CacheSetExact(cache, generateCacheKey(call.prompt), call.prompt,
                                     call.response, embedding, 0, now)
           /\ semanticCache' = CacheSetSemantic(semanticCache, call.response, embedding,
                                                0, now)
           /\ tasks' = [tasks EXCEPT
                          !.calls[i] = Return(r, "dispatch", call.response),
                          !.writes = Append(@, [n |-> i, response |-> call.response,
                                                embedding |-> embedding])]
    /\ UNCHANGED <<now, useSemantic, req, served, lastOp, puts, sel, exec, cls>>

RaceInit ==
    /\ cache = << >>
    /\ semanticCache = << >>
    /\ now = 0
    /\ useSemantic \in BOOLEAN
    /\ req = Idle
    /\ served = 0
    /\ lastOp = NoOp
    /\ puts = 0
    /\ sel = NoSelection(<< >>)
    /\ exec = NoExec
    /\ cls = NoText
    /\ tasks = [calls |-> [i \in Racers |-> Idle], writes |-> << >>]

RaceNext ==
    \/ \E i \in Racers, prompt \in Prompts, options \in RequestOptions :
          RaceStart(i, prompt, options)
    \/ \E i \in Racers, outcome \in BackendOutcomes : RaceLookupEmbeddingReturns(i, outcome)
    \/ \E i \in Racers, outcome \in BackendOutcomes : RaceCompletionReturns(i, outcome)
    \/ \E i \in Racers, outcome \in BackendOutcomes : RaceCacheEmbeddingReturns(i, outcome)

SpecRace == RaceInit /\ [][RaceNext]_vars

\* Both calls are for one text with caching enabled, both missed the cache, were
\* answered by a candidate and wrote the answer to the cache
BothMissedAndWrote ==
    /\ \A i \in Racers : /\ tasks.calls[i].pc = "done"
                          /\ tasks.calls[i].via = "dispatch"
                          /\ tasks.calls[i].wrote
                          /\ CachingEnabled(tasks.calls[i].options)
    /\ tasks.calls[1].prompt = tasks.calls[2].prompt
    /\ Len(tasks.writes) = 2

\* C38: when two calls for one text, both missing the cache, have completed,
\* each has invoked a candidate, the exact index holds the entry of the text's
\* fingerprint with the response of the later write, and the semantic index
\* (empty before the two calls) holds at most one entry.
C38_ConcurrentMisses ==
    BothMissedAndWrote
      => /\ \A i \in Racers : tasks.calls[i].invoked # << >>
         /\ generateCacheKey(tasks.calls[1].prompt) \in DOMAIN cache
         /\ cache[generateCacheKey(tasks.calls[1].prompt)].response
              = tasks.writes[2].response
         /\ DOMAIN cache = {generateCacheKey(tasks.calls[1].prompt)}
         /\ Len(semanticCache) <= 1

==========================================================================
